---- MODULE Spec2Model ----
(***************************************************************************)
(* Model of the ammrat13 HDMI peripheral framebuffer driver                *)
(* (src/unnamed/part_001, the final form of ammrat13-hdmi-dev.c).          *)
(*                                                                         *)
(* The model covers the register interface, the coordinate decoder, the    *)
(* interrupt service routine hdmi_isr and the FBIO_WAITFORVSYNC path of    *)
(* hdmi_ioctl, which waits on hdmi_vblank_waitq with                       *)
(* wait_event_interruptible_timeout.  The device itself is an environment  *)
(* that changes the registers on its own.                                  *)
(*                                                                         *)
(* Init is the state right after a successful hdmi_probe: the buffer       *)
(* address is programmed, interrupts are enabled, the coordinate valid bit *)
(* has been cleared by the read at line 680 and the device is started.     *)
(* hdmi_probe and hdmi_remove themselves are modelled from InitLife, the   *)
(* device with no driver bound (SpecLife); SpecTimed ties the clock, the   *)
(* scan and the per-frame interrupt together.                              *)
(***************************************************************************)
EXTENDS Integers, Naturals, Sequences, FiniteSets, TLC

(***************************************************************************)
(* Bounds of the model.                                                    *)
(***************************************************************************)
\* Number of threads that may call ioctl(FBIO_WAITFORVSYNC) concurrently.
NumWaiters == 2
\* msecs_to_jiffies(20), the timeout of FBIO_WAITFORVSYNC in jiffies; 6 is
\* its value at HZ = 300.
TimeoutJiffies == 6
\* The frame period in jiffies: "just under 17ms" (line 450), which is 5 at
\* HZ = 300, so that the timeout is the frame period and 20% more.
FrameJiffies == 5
\* The successful probes the model counts.
MaxAttach == 2

(***************************************************************************)
(* Program constants.                                                      *)
(***************************************************************************)
HDMI_CTRL_OFF == 0
HDMI_GIE_OFF == 4
HDMI_IER_OFF == 8
HDMI_ISR_OFF == 12
HDMI_BUF_OFF == 16
HDMI_COORD_DATA_OFF == 24
HDMI_COORD_CTRL_OFF == 28
HDMI_MMIO_LEN == 32
HDMI_VBLANK_IRQ == 2
\* Bit 9 (0x200) of the control register: interrupt pending.
CTRL_IRQ_PENDING == 512
\* 0x081, the value hdmi_probe writes to the control register to start.
CTRL_START == 129
\* The row below which the scan dot is in vertical blanking.
VBLANK_ROWS == 45
\* Rows of one frame: yres and the upper margin, lower margin and vertical
\* sync length of hdmi_var_init.
FRAME_ROWS == 525
\* Errno values of the kernel the driver is built against.
EINTR == 4
ETIMEDOUT == 110
ERESTARTSYS == 512
EINVAL == 22
EFAULT == 14

Offsets ==
  {HDMI_CTRL_OFF, HDMI_GIE_OFF, HDMI_IER_OFF, HDMI_ISR_OFF, HDMI_BUF_OFF,
   HDMI_COORD_DATA_OFF, HDMI_COORD_CTRL_OFF}

Waiters == 1..NumWaiters

(***************************************************************************)
(* Bit helpers on naturals (the registers are u32).                        *)
(***************************************************************************)
\* x & bit, for bit a power of two.
BitAnd1(x, bit) == ((x \div bit) % 2) * bit

\* x | bit, for bit a power of two.
BitOr1(x, bit) == IF BitAnd1(x, bit) = 0 THEN x + bit ELSE x

\* x & ~bit, for bit a power of two.
BitClear1(x, bit) == x - BitAnd1(x, bit)

(***************************************************************************)
(* Register interface.                                                     *)
(***************************************************************************)
\* What the driver allocates: the fb_info, the register mapping, the DMA
\* buffer, the pseudo palette and the interrupt line.
Resources == {"fbinfo", "mmio", "buffer", "palette", "irq"}

\* No caller holds a handle that was freed.
NoneDangling == [callers |-> {}, query |-> FALSE]

\* hdmi_assert_init: the BUG_ON conditions, negated, on the fields the
\* model keeps.
hdmi_assert_init(h, addr) ==
  /\ {"fbinfo", "mmio", "buffer", "palette"} \subseteq h
  /\ addr # 0

hdmi_assert_inbounds_range_only(off) ==
  /\ off >= 0
  /\ off < HDMI_MMIO_LEN

\* hdmi_assert_inbounds: the two BUG_ON conditions, negated.
hdmi_assert_inbounds(off) ==
  /\ off >= 0
  /\ off < HDMI_MMIO_LEN
  /\ off % 4 = 0

\* The value hdmi_ioread32 returns.
hdmi_ioread32(r, off) == r[off]

\* The register block after a read.  Reading the coordinate control
\* register clears its valid bit (the driver relies on this at lines
\* 679-680 and 721-723); every other read leaves the block alone.
AfterRead(r, off) ==
  IF off = HDMI_COORD_CTRL_OFF
    THEN [r EXCEPT ![off] = BitClear1(r[off], 1)]
    ELSE r

hdmi_iowrite32_whole_block(r, off, val) == [o \in DOMAIN r |-> val]

\* The register block after hdmi_iowrite32(info, off, val).
hdmi_iowrite32(r, off, val) == [r EXCEPT ![off] = val]

(***************************************************************************)
(* Coordinate decoder.                                                     *)
(***************************************************************************)
\* A u32 is kept as its two 16-bit halves, <<bits 31:16, bits 15:0>>, so
\* that every 32-bit word can be written down.
U32(n) == <<n \div 65536, n % 65536>>

\* (w >> shift) & (2^width - 1) on a u32 w, for width <= 16.
Field(w, shift, width) ==
  IF shift >= 16
    THEN (w[1] \div (2 ^ (shift - 16))) % (2 ^ width)
    ELSE ((w[1] % (2 ^ width)) * (2 ^ (16 - shift))
          + (w[2] \div (2 ^ shift))) % (2 ^ width)

hdmi_coordinate_decode_narrow_fid(w) ==
  [fid |-> Field(w, 20, 11),
   row |-> Field(w, 10, 10),
   col |-> Field(w, 0, 10)]

\* The unpacking in hdmi_coordinate_read (lines 111-114), of the u32 w.
hdmi_coordinate_decode(w) ==
  [fid |-> Field(w, 20, 12),
   row |-> Field(w, 10, 10),
   col |-> Field(w, 0, 10)]

\* The same of a register value of the model.
DecodeCoord(data) == hdmi_coordinate_decode(U32(data))

PackCoord(fid, row, col) == fid * 1048576 + row * 1024 + col

\* Variant: the threshold is one row short.
is_vblank_inclusive(coord) == coord.row <= VBLANK_ROWS

is_vblank_one_row_short(coord) == coord.row < VBLANK_ROWS - 1

hdmi_coordinate_is_vblank(coord) == coord.row < VBLANK_ROWS

is_hblank_inclusive(coord) == coord.col <= 160

\* Lines 123-126.
hdmi_coordinate_is_hblank(coord) == coord.col < 160

is_vsync_inclusive(coord) == coord.row >= 10 /\ coord.row <= 12

\* Lines 128-131.
hdmi_coordinate_is_vsync(coord) == coord.row >= 10 /\ coord.row < 12

\* The coordinate words the device presents in the model: the last row of
\* vertical blanking and the first visible row.
CoordWords == {PackCoord(0, 44, 799), PackCoord(1, 45, 0)}

\* The interrupt causes the device may latch in the interrupt status
\* register: none, the per-frame one, the per-frame one and another one.
IsrCauses == {0, HDMI_VBLANK_IRQ, HDMI_VBLANK_IRQ + 1}

(***************************************************************************)
(* State.                                                                  *)
(***************************************************************************)
VARIABLES
  regs,      \* the register block: offset -> u32
  ipc,       \* hdmi_isr: 0 when not running, the index in IsrOrder of the
             \* step to take, or Len(IsrOrder) + 1 at the return statement
  isrv,      \* hdmi_isr: the local `isr`
  iret,      \* hdmi_isr: the value being returned
  ilog,      \* hdmi_isr: what the current invocation has done
  warned,    \* the static flag of WARN_ON_ONCE at line 161
  fatal,     \* BUG() was hit: the kernel has stopped
  wpc,       \* per caller: position in ioctl(FBIO_WAITFORVSYNC)
  left,      \* per caller: __ret of the wait macro, the jiffies left
  wint,      \* per caller: __int, the result of prepare_to_wait_event
  sigpend,   \* per caller: a signal is pending
  tstate,    \* per caller: task state
  waitq,     \* hdmi_vblank_waitq: the callers with an entry on the queue
  wres,      \* per caller: `res` at line 452
  wret,      \* per caller: the value the ioctl returned
  queued,    \* per caller: an entry was put on the queue during this call
  woke,      \* per caller: what woke it last during this call
  lastcond,  \* per caller: the last evaluation of the wait condition
  lpc,       \* hdmi_probe / hdmi_remove: where the driver binding stands
  lidx,      \* hdmi_probe / hdmi_remove: the index in ProbeOrder or
             \* RemoveOrder of the step to take, 0 outside of both
  held,      \* the resources currently allocated to the driver
  registered,\* the framebuffer is registered: consumers can reach fbops
  drvdata,   \* dev_get_drvdata(&pdev->dev) is the fb_info, not NULL
  bufaddr,   \* info->fix.smem_start: bus address of the buffer, 0 if none
  pres,      \* hdmi_probe: `res`, and the value it returned last
  plog,      \* hdmi_probe / hdmi_remove: what the current call has done
  nattach,   \* how many times hdmi_probe has returned 0, up to MaxAttach
  dangling,  \* the callers inside hdmi_ioctl whose `info` has been passed to
             \* framebuffer_release since they entered: the callers of
             \* FBIO_WAITFORVSYNC, and whether that of FBIOGET_VBLANK
  blk,       \* register accessors on their own: a simulated register
             \* block, one location per offset that can be presented
  acc,       \* register accessors on their own: the last access made
  word,      \* decoder on its own: the coordinate word, as its two halves
  dec,       \* decoder on its own: what was decoded from word
  qpc,       \* ioctl(FBIOGET_VBLANK): position of its caller
  qarg,      \* ioctl(FBIOGET_VBLANK): `arg`, the destination pointer
  qlog,      \* ioctl(FBIOGET_VBLANK): register reads of the current call
  qout,      \* ioctl(FBIOGET_VBLANK): the struct fb_vblank copied out
  qret,      \* ioctl(FBIOGET_VBLANK): the value the ioctl returned
  var,       \* hdmi_check_var: *var, the proposal as it stands
  var0,      \* hdmi_check_var: *var as it was when the last call was made
  cvres,     \* hdmi_check_var: the values returned, oldest first
  spres,     \* hdmi_set_par: the value returned, -1 before any call
  mapped     \* hdmi_mmap has mapped the buffer into a consumer

isrVars == <<ipc, isrv, iret, ilog, warned>>
waitVars ==
  <<wpc, left, wint, sigpend, tstate, waitq, wres, wret, queued, woke,
    lastcond>>
lifeVars ==
  <<lpc, lidx, held, registered, drvdata, bufaddr, pres, plog, nattach,
    dangling>>
harnessVars == <<blk, acc, word, dec>>
queryVars == <<qpc, qarg, qlog, qout, qret>>
geomVars == <<var, var0, cvres, spres, mapped>>
auxVars == <<harnessVars, queryVars, geomVars>>
vars == <<regs, fatal, isrVars, waitVars, lifeVars, auxVars>>

\* One entry of ilog.
Event(kind, off, val) == <<kind, off, val>>

\* The offsets a caller of the register accessors can present: those of
\* the block and the ones on either side of it.
BusOffsets == (0 - 4)..(HDMI_MMIO_LEN + 4)

\* No access made yet.
NoAccess == [op |-> "none", off |-> 0, val |-> 0, ret |-> 0]

\* Nothing decoded yet.
NoDecode ==
  [done |-> FALSE, fid |-> 0, row |-> 0, col |-> 0,
   vblank |-> FALSE, hblank |-> FALSE, vsync |-> FALSE]

\* Nothing copied to the caller of ioctl(FBIOGET_VBLANK).
NoResult ==
  [copied |-> FALSE, count |-> 0, vcount |-> 0, hcount |-> 0, flags |-> {}]

\* The simulated register block reads zero everywhere and nothing has been
\* accessed or decoded.
InitHarness ==
  /\ blk = [o \in BusOffsets |-> 0]
  /\ acc = NoAccess
  /\ dec = NoDecode

\* Nobody is inside ioctl(FBIOGET_VBLANK).
InitQueryVars ==
  /\ qpc = "idle"
  /\ qarg = "ok"
  /\ qlog = <<>>
  /\ qout = NoResult
  /\ qret = 0

(***************************************************************************)
(* Geometry.  A struct fb_var_screeninfo is a record of its fields; sync   *)
(* is the set of its flags and vmode is its interlacing bits               *)
(* (vmode & FB_VMODE_MASK) together with the set of its other flags.       *)
(***************************************************************************)
\* Lines 200-230: the one mode of the hardware.
hdmi_var_init ==
  [xres |-> 640, yres |-> 480,
   xres_virtual |-> 640, yres_virtual |-> 480,
   xoffset |-> 0, yoffset |-> 0,
   bits_per_pixel |-> 32, grayscale |-> 0,
   red |-> [offset |-> 16, length |-> 8, msb_right |-> 0],
   green |-> [offset |-> 8, length |-> 8, msb_right |-> 0],
   blue |-> [offset |-> 0, length |-> 8, msb_right |-> 0],
   transp |-> [offset |-> 24, length |-> 0, msb_right |-> 0],
   nonstd |-> 0, activate |-> 0,
   height |-> 0 - 1, width |-> 0 - 1,
   pixclock |-> 39721,
   left_margin |-> 40, right_margin |-> 24,
   upper_margin |-> 32, lower_margin |-> 11,
   hsync_len |-> 96, vsync_len |-> 2,
   sync |-> {"HOR_HIGH_ACT", "VERT_HIGH_ACT"},
   vmode |-> [mode |-> "NONINTERLACED", rest |-> {}],
   rotate |-> 0]

\* Lines 322-326: an under-sized virtual resolution is rounded up.
CheckVarRound(v) ==
  [v EXCEPT
     !.xres_virtual = IF @ < v.xres THEN v.xres ELSE @,
     !.yres_virtual = IF @ < v.yres THEN v.yres ELSE @]

CheckVarRejectsPanAllowed(v) ==
  \/ v.xres # 640 \/ v.yres # 480
  \/ v.xres_virtual # 640 \/ v.yres_virtual # 480
  \/ v.vmode.mode # "NONINTERLACED"
  \/ v.bits_per_pixel # 32 \/ v.grayscale # 0

\* Lines 328-352: the five tests that return -EINVAL.
CheckVarRejects(v) ==
  \/ v.xres # 640 \/ v.yres # 480
  \/ v.xres_virtual # 640 \/ v.yres_virtual # 480
  \/ v.vmode.mode # "NONINTERLACED"
  \/ v.bits_per_pixel # 32 \/ v.grayscale # 0
  \/ v.xoffset # 0 \/ v.yoffset # 0

CheckVarAcceptWholeVmode(v) ==
  [v EXCEPT
     !.red = hdmi_var_init.red,
     !.green = hdmi_var_init.green,
     !.blue = hdmi_var_init.blue,
     !.transp = hdmi_var_init.transp,
     !.nonstd = hdmi_var_init.nonstd,
     !.pixclock = hdmi_var_init.pixclock,
     !.left_margin = hdmi_var_init.left_margin,
     !.right_margin = hdmi_var_init.right_margin,
     !.upper_margin = hdmi_var_init.upper_margin,
     !.lower_margin = hdmi_var_init.lower_margin,
     !.hsync_len = hdmi_var_init.hsync_len,
     !.vsync_len = hdmi_var_init.vsync_len,
     !.sync = hdmi_var_init.sync,
     !.vmode = hdmi_var_init.vmode]

\* Lines 360-380: the fields overwritten when the proposal is accepted.
CheckVarAccept(v) ==
  [v EXCEPT
     !.red = hdmi_var_init.red,
     !.green = hdmi_var_init.green,
     !.blue = hdmi_var_init.blue,
     !.transp = hdmi_var_init.transp,
     !.nonstd = hdmi_var_init.nonstd,
     !.pixclock = hdmi_var_init.pixclock,
     !.left_margin = hdmi_var_init.left_margin,
     !.right_margin = hdmi_var_init.right_margin,
     !.upper_margin = hdmi_var_init.upper_margin,
     !.lower_margin = hdmi_var_init.lower_margin,
     !.hsync_len = hdmi_var_init.hsync_len,
     !.vsync_len = hdmi_var_init.vsync_len,
     !.sync = hdmi_var_init.sync,
     !.vmode = [mode |-> hdmi_var_init.vmode.mode, rest |-> v.vmode.rest]]

\* hdmi_check_var (lines 315-382) on an initialised handle: the value
\* returned and *var afterwards.
hdmi_check_var(v) ==
  LET r == CheckVarRound(v) IN
    IF CheckVarRejects(r)
      THEN [ret |-> 0 - EINVAL, var |-> r]
      ELSE [ret |-> 0, var |-> CheckVarAccept(r)]

\* hdmi_set_par (lines 474-485) with info->var = v.
hdmi_set_par(v) == IF hdmi_check_var(v).ret # 0 THEN 1 ELSE 0

\* No proposal is under negotiation.
InitGeom ==
  /\ var = hdmi_var_init
  /\ var0 = hdmi_var_init
  /\ cvres = <<>>
  /\ spres = 0 - 1
  /\ mapped = FALSE

\* The driver bound and the device running: the state hdmi_probe leaves.
InitDriver ==
  /\ regs = [o \in Offsets |->
               CASE o = HDMI_CTRL_OFF -> CTRL_START
                 [] o = HDMI_GIE_OFF -> 1
                 [] o = HDMI_IER_OFF -> HDMI_VBLANK_IRQ
                 [] o = HDMI_BUF_OFF -> 4096
                 [] OTHER -> 0]
  /\ ipc = 0
  /\ isrv = 0
  /\ iret = "none"
  /\ ilog = <<>>
  /\ warned = FALSE
  /\ fatal = FALSE
  /\ wpc = [w \in Waiters |-> "idle"]
  /\ left = [w \in Waiters |-> 0]
  /\ wint = [w \in Waiters |-> 0]
  /\ sigpend = [w \in Waiters |-> FALSE]
  /\ tstate = [w \in Waiters |-> "RUNNING"]
  /\ waitq = {}
  /\ wres = [w \in Waiters |-> 0]
  /\ wret = [w \in Waiters |-> 0]
  /\ queued = [w \in Waiters |-> FALSE]
  /\ woke = [w \in Waiters |-> "none"]
  /\ lastcond = [w \in Waiters |-> "none"]
  /\ lpc = "bound"
  /\ lidx = 0
  /\ held = Resources
  /\ registered = TRUE
  /\ drvdata = TRUE
  /\ bufaddr = 4096
  /\ pres = 0
  /\ plog = <<>>
  /\ nattach = 1
  /\ dangling = NoneDangling

Init ==
  /\ InitDriver
  /\ InitHarness
  /\ word = <<0, 0>>
  /\ InitQueryVars
  /\ InitGeom

(***************************************************************************)
(* The device.  It raises and lowers its interrupt and advances the scan   *)
(* position on its own; the driver only sees the registers.                *)
(*                                                                         *)
(* BUG() stops the kernel: once fatal is set the model takes no more       *)
(* steps, so every action is guarded by ~fatal.                            *)
(***************************************************************************)
\* The device latches cause bits v and asserts its interrupt.
HwRaise(v) ==
  /\ ~fatal
  /\ regs' = [regs EXCEPT
               ![HDMI_ISR_OFF] = v,
               ![HDMI_CTRL_OFF] = BitOr1(regs[HDMI_CTRL_OFF], CTRL_IRQ_PENDING)]
  /\ regs' # regs
  /\ UNCHANGED <<fatal, isrVars, waitVars>>
  /\ UNCHANGED lifeVars
  /\ UNCHANGED auxVars

\* The device drops its interrupt and its cause bits.
HwLower ==
  /\ ~fatal
  /\ BitAnd1(regs[HDMI_CTRL_OFF], CTRL_IRQ_PENDING) # 0
  /\ regs' = [regs EXCEPT
               ![HDMI_ISR_OFF] = 0,
               ![HDMI_CTRL_OFF] = BitClear1(regs[HDMI_CTRL_OFF], CTRL_IRQ_PENDING)]
  /\ UNCHANGED <<fatal, isrVars, waitVars>>
  /\ UNCHANGED lifeVars
  /\ UNCHANGED auxVars

\* The device presents a new scan position and sets the valid bit.
HwScan(c) ==
  /\ ~fatal
  /\ regs' = [regs EXCEPT
               ![HDMI_COORD_DATA_OFF] = c,
               ![HDMI_COORD_CTRL_OFF] = 1]
  /\ regs' # regs
  /\ UNCHANGED <<fatal, isrVars, waitVars>>
  /\ UNCHANGED lifeVars
  /\ UNCHANGED auxVars

(***************************************************************************)
(* hdmi_isr.                                                               *)
(***************************************************************************)
\* Variant: the acknowledge write is issued before the wake-up.
IsrOrderAckFirst == <<"status", "ack", "wake">>

IsrOrderStatusTwice == <<"status", "wake", "status", "ack">>

\* The order of the three steps of a serviced invocation (lines 159-164).
IsrOrder == <<"status", "wake", "ack">>

\* Variant: the test looks at bit 0 (start) instead of bit 9.
IsrPendingStartBit(ctrl) == BitAnd1(ctrl, 1) # 0

\* The test at line 155.
IsrPending(ctrl) == BitAnd1(ctrl, CTRL_IRQ_PENDING) # 0

\* Variant: no check of the status value.
IsrBugOnNever(isr) == FALSE

\* BUG_ON(isr == 0), line 160.
IsrBugOn(isr) == isr = 0

\* Variant: WARN_ON instead of WARN_ON_ONCE.
IsrWarnsEveryTime(isr, already) == isr # HDMI_VBLANK_IRQ

\* WARN_ON_ONCE(isr != HDMI_VBLANK_IRQ), line 161: a warning is emitted
\* when the condition holds and none was emitted before.
IsrWarns(isr, already) == isr # HDMI_VBLANK_IRQ /\ ~already

\* Variant: only the per-frame bit is acknowledged.
IsrAckVblankOnly(isr) == HDMI_VBLANK_IRQ

\* The value written back to the interrupt status register, line 164.
IsrAckValue(isr) == isr

\* Variant: only one sleeper is woken.
wake_up_one(q, ts) ==
  IF \E w \in q : ts[w] = "INTERRUPTIBLE"
    THEN {CHOOSE w \in q : ts[w] = "INTERRUPTIBLE"}
    ELSE {}

\* wake_up_interruptible_all: the callers it wakes, which are all those
\* with an entry on the queue that are in interruptible sleep.
wake_up_interruptible_all(q, ts) == {w \in q : ts[w] = "INTERRUPTIBLE"}

\* ipc at a return statement.
IsrAtReturn == Len(IsrOrder) + 1

\* Moving on from step ipc: to the next step, or to the return of
\* IRQ_HANDLED at line 165.
IsrAdvance ==
  /\ ipc' = ipc + 1
  /\ iret' = IF ipc = Len(IsrOrder) THEN "IRQ_HANDLED" ELSE iret

\* Lines 144-156: entry, and the check for an interrupt of this device.
\* hdmi_assert_init at line 152 stops the kernel when a field of the handle
\* is not set; a handle that has been freed has no defined content, and
\* that case is IsrUseAfterFree.
IsrEnter ==
  /\ ~fatal
  /\ ipc = 0
  /\ hdmi_assert_inbounds(HDMI_CTRL_OFF)
  /\ IF "fbinfo" \in held /\ ~hdmi_assert_init(held, bufaddr)
       THEN /\ fatal' = TRUE
            /\ UNCHANGED <<regs, ipc, iret, ilog>>
       ELSE LET ctrl == hdmi_ioread32(regs, HDMI_CTRL_OFF) IN
              /\ regs' = AfterRead(regs, HDMI_CTRL_OFF)
              /\ ilog' = <<Event("rd", HDMI_CTRL_OFF, ctrl)>>
              /\ IF IsrPending(ctrl)
                   THEN ipc' = 1 /\ iret' = "none"
                   ELSE ipc' = IsrAtReturn /\ iret' = "IRQ_NONE"
              /\ UNCHANGED fatal
  /\ UNCHANGED <<isrv, warned, waitVars>>
  /\ UNCHANGED lifeVars
  /\ UNCHANGED auxVars

\* Lines 159-161: read the interrupt status register and classify it.
IsrStatus ==
  /\ ~fatal
  /\ ipc \in 1..Len(IsrOrder)
  /\ IsrOrder[ipc] = "status"
  /\ hdmi_assert_inbounds(HDMI_ISR_OFF)
  /\ LET isr == hdmi_ioread32(regs, HDMI_ISR_OFF) IN
       /\ regs' = AfterRead(regs, HDMI_ISR_OFF)
       /\ isrv' = isr
       /\ IF IsrBugOn(isr)
            THEN /\ fatal' = TRUE
                 /\ ilog' = Append(ilog, Event("rd", HDMI_ISR_OFF, isr))
                 /\ UNCHANGED <<ipc, iret, warned>>
            ELSE /\ ilog' =
                      Append(ilog, Event("rd", HDMI_ISR_OFF, isr)) \o
                      (IF IsrWarns(isr, warned)
                         THEN <<Event("warn", HDMI_ISR_OFF, isr)>>
                         ELSE <<>>)
                 /\ warned' = (warned \/ isr # HDMI_VBLANK_IRQ)
                 /\ IsrAdvance
                 /\ UNCHANGED fatal
  /\ UNCHANGED waitVars
  /\ UNCHANGED lifeVars
  /\ UNCHANGED auxVars

\* Line 163: wake everybody on hdmi_vblank_waitq.
IsrWake ==
  /\ ~fatal
  /\ ipc \in 1..Len(IsrOrder)
  /\ IsrOrder[ipc] = "wake"
  /\ LET woken == wake_up_interruptible_all(waitq, tstate) IN
       /\ tstate' = [w \in Waiters |->
                       IF w \in woken THEN "RUNNING" ELSE tstate[w]]
       /\ waitq' = waitq \ woken
       /\ woke' = [w \in Waiters |-> IF w \in woken THEN "isr" ELSE woke[w]]
       /\ lastcond' = [w \in Waiters |->
                         IF w \in woken THEN "none" ELSE lastcond[w]]
  /\ ilog' = Append(ilog,
                   Event("wake", 0,
                         Cardinality(wake_up_interruptible_all(waitq, tstate))))
  /\ IsrAdvance
  /\ UNCHANGED <<regs, fatal, isrv, warned, wpc, left, wint, sigpend, wres,
                 wret, queued>>
  /\ UNCHANGED lifeVars
  /\ UNCHANGED auxVars

\* Lines 164-165: acknowledge by writing the bits back, and return.
IsrAck ==
  /\ ~fatal
  /\ ipc \in 1..Len(IsrOrder)
  /\ IsrOrder[ipc] = "ack"
  /\ hdmi_assert_inbounds(HDMI_ISR_OFF)
  /\ regs' = hdmi_iowrite32(regs, HDMI_ISR_OFF, IsrAckValue(isrv))
  /\ ilog' = Append(ilog, Event("wr", HDMI_ISR_OFF, IsrAckValue(isrv)))
  /\ IsrAdvance
  /\ UNCHANGED <<fatal, isrv, warned, waitVars>>
  /\ UNCHANGED lifeVars
  /\ UNCHANGED auxVars

\* hdmi_isr returns (line 156 or line 165): its frame is gone.
IsrExit ==
  /\ ~fatal
  /\ ipc = IsrAtReturn
  /\ ipc' = 0
  /\ isrv' = 0
  /\ iret' = "none"
  /\ ilog' = <<>>
  /\ UNCHANGED <<regs, fatal, warned, waitVars>>
  /\ UNCHANGED lifeVars
  /\ UNCHANGED auxVars

(***************************************************************************)
(* ioctl(FBIO_WAITFORVSYNC): lines 443-459, with the kernel's               *)
(* wait_event_interruptible_timeout expanded at its call site.             *)
(*                                                                         *)
(* Positions of a caller:                                                  *)
(*   idle   not in the ioctl                                               *)
(*   poll0  hdmi_coordinate_read at the test of its spin loop, for the     *)
(*          check made before the wait loop                                *)
(*   spin0  hdmi_coordinate_read in the body of its spin loop, likewise    *)
(*   data0  hdmi_coordinate_read reading the data, for that check          *)
(*   prep   at prepare_to_wait_event, the top of the wait loop             *)
(*   poll   hdmi_coordinate_read at the test of its spin loop, inside the  *)
(*          wait loop                                                      *)
(*   spin   hdmi_coordinate_read in the body of its spin loop, likewise    *)
(*   data   hdmi_coordinate_read reading the data, inside the loop         *)
(*   sleep  in schedule_timeout                                            *)
(*   done   returned                                                       *)
(***************************************************************************)
\* Variant: every evaluation ends the wait, whatever the condition.
WaitCondTimeoutAlways(cond, ret) ==
  [stop |-> TRUE, ret |-> IF ret = 0 THEN 1 ELSE ret]

\* Variant: the loop is left on timeout only, never on the condition.
WaitCondTimeoutOnly(cond, ret) == [stop |-> ret = 0, ret |-> ret]

\* Variant: a condition found true after the time ran out leaves __ret at 0.
WaitCondTimeoutKeepsZero(cond, ret) == [stop |-> cond \/ ret = 0, ret |-> ret]

\* ___wait_cond_timeout(condition): whether the wait stops, and __ret.
WaitCondTimeout(cond, ret) ==
  [stop |-> cond \/ ret = 0,
   ret |-> IF cond /\ ret = 0 THEN 1 ELSE ret]

\* Variant: -ERESTARTSYS is passed on untranslated.
IoctlReturnRaw(res) ==
  IF res < 0 THEN res
  ELSE IF res = 0 THEN -ETIMEDOUT
  ELSE 0

\* Lines 456-458: the ioctl's return value from `res`.
IoctlReturn(res) ==
  IF res = -ERESTARTSYS THEN -EINTR
  ELSE IF res = 0 THEN -ETIMEDOUT
  ELSE 0

\* The wait condition at line 454, on the data word read at line 111.
WaitCondition(data) == hdmi_coordinate_is_vblank(DecodeCoord(data))

\* The caller leaves the ioctl with `res`.
Return(w, res) ==
  /\ wpc' = [wpc EXCEPT ![w] = "done"]
  /\ wres' = [wres EXCEPT ![w] = res]
  /\ wret' = [wret EXCEPT ![w] = IoctlReturn(res)]

\* Lines 406-412 and 452-455: entry into the ioctl and into the wait macro,
\* with __ret = msecs_to_jiffies(20).
Call(w) ==
  /\ ~fatal
  /\ wpc[w] \in {"idle", "done"}
  /\ registered
  /\ hdmi_assert_init(held, bufaddr)
  /\ wpc' = [wpc EXCEPT ![w] = "poll0"]
  /\ left' = [left EXCEPT ![w] = TimeoutJiffies]
  /\ wint' = [wint EXCEPT ![w] = 0]
  /\ sigpend' = [sigpend EXCEPT ![w] = FALSE]
  /\ wres' = [wres EXCEPT ![w] = 0]
  /\ wret' = [wret EXCEPT ![w] = 0]
  /\ queued' = [queued EXCEPT ![w] = FALSE]
  /\ woke' = [woke EXCEPT ![w] = "none"]
  /\ lastcond' = [lastcond EXCEPT ![w] = "none"]
  /\ dangling' = [dangling EXCEPT !.callers = @ \ {w}]
  /\ UNCHANGED <<regs, fatal, isrVars, tstate, waitq>>
  /\ UNCHANGED <<lpc, lidx, held, registered, drvdata, bufaddr, pres, plog,
                 nattach>>
  /\ UNCHANGED auxVars

CoordValidAlways(ctrl) == TRUE

\* Line 108: the coordinate data are valid when bit 0 of the control
\* register reads set; the loop goes on while this is false.
CoordValid(ctrl) == BitAnd1(ctrl, 1) # 0

\* Line 108: the test of the spin loop, a read of the coordinate valid bit.
CoordPoll(w) ==
  /\ ~fatal
  /\ wpc[w] \in {"poll0", "poll"}
  /\ hdmi_assert_inbounds(HDMI_COORD_CTRL_OFF)
  /\ LET ctrl == hdmi_ioread32(regs, HDMI_COORD_CTRL_OFF) IN
       /\ regs' = AfterRead(regs, HDMI_COORD_CTRL_OFF)
       /\ wpc' = [wpc EXCEPT ![w] =
                    IF ~CoordValid(ctrl)
                      THEN (IF wpc[w] = "poll0" THEN "spin0" ELSE "spin")
                      ELSE (IF wpc[w] = "poll0" THEN "data0" ELSE "data")]
  /\ UNCHANGED <<fatal, isrVars, left, wint, sigpend, tstate, waitq, wres,
                 wret, queued, woke, lastcond>>
  /\ UNCHANGED lifeVars
  /\ UNCHANGED auxVars

\* Line 109: the empty body of the spin loop; back to the test.
CoordSpin(w) ==
  /\ ~fatal
  /\ wpc[w] \in {"spin0", "spin"}
  /\ wpc' = [wpc EXCEPT ![w] = IF wpc[w] = "spin0" THEN "poll0" ELSE "poll"]
  /\ UNCHANGED <<regs, fatal, isrVars, left, wint, sigpend, tstate, waitq,
                 wres, wret, queued, woke, lastcond>>
  /\ UNCHANGED lifeVars
  /\ UNCHANGED auxVars

\* Lines 111-115 and 454, for the check the macro makes before its loop:
\* return at once if the condition holds, else enter the loop.
CoordData0(w) ==
  /\ ~fatal
  /\ wpc[w] = "data0"
  /\ hdmi_assert_inbounds(HDMI_COORD_DATA_OFF)
  /\ LET cond == WaitCondition(hdmi_ioread32(regs, HDMI_COORD_DATA_OFF))
         wc == WaitCondTimeout(cond, left[w])
     IN
       /\ regs' = AfterRead(regs, HDMI_COORD_DATA_OFF)
       /\ lastcond' = [lastcond EXCEPT ![w] = IF cond THEN "T" ELSE "F"]
       /\ left' = [left EXCEPT ![w] = wc.ret]
       /\ IF wc.stop
            THEN Return(w, wc.ret)
            ELSE /\ wpc' = [wpc EXCEPT ![w] = "prep"]
                 /\ UNCHANGED <<wres, wret>>
  /\ UNCHANGED <<fatal, isrVars, wint, sigpend, tstate, waitq, queued, woke>>
  /\ UNCHANGED lifeVars
  /\ UNCHANGED auxVars

\* Variant: the task state is set but no entry is put on the queue.
PrepareUnqueued(w) ==
  /\ ~fatal
  /\ wpc[w] = "prep"
  /\ IF sigpend[w]
       THEN /\ wint' = [wint EXCEPT ![w] = -ERESTARTSYS]
            /\ UNCHANGED tstate
       ELSE /\ wint' = [wint EXCEPT ![w] = 0]
            /\ tstate' = [tstate EXCEPT ![w] = "INTERRUPTIBLE"]
  /\ wpc' = [wpc EXCEPT ![w] = "poll"]
  /\ UNCHANGED <<regs, fatal, isrVars, left, sigpend, wres, wret, woke,
                 lastcond, waitq, queued>>
  /\ UNCHANGED lifeVars
  /\ UNCHANGED auxVars

\* prepare_to_wait_event: with a signal pending the entry is taken off the
\* queue and -ERESTARTSYS is the result; otherwise the entry is put on the
\* queue (if it is not there) and the task state is set.
Prepare(w) ==
  /\ ~fatal
  /\ wpc[w] = "prep"
  /\ IF sigpend[w]
       THEN /\ waitq' = waitq \ {w}
            /\ wint' = [wint EXCEPT ![w] = -ERESTARTSYS]
            /\ UNCHANGED <<tstate, queued>>
       ELSE /\ waitq' = waitq \cup {w}
            /\ wint' = [wint EXCEPT ![w] = 0]
            /\ tstate' = [tstate EXCEPT ![w] = "INTERRUPTIBLE"]
            /\ queued' = [queued EXCEPT ![w] = TRUE]
  /\ wpc' = [wpc EXCEPT ![w] = "poll"]
  /\ UNCHANGED <<regs, fatal, isrVars, left, sigpend, wres, wret, woke,
                 lastcond>>
  /\ UNCHANGED lifeVars
  /\ UNCHANGED auxVars

\* Lines 111-115 and 454 inside the loop of ___wait_event: stop when the
\* condition holds or no time is left (finish_wait, return __ret), return
\* __int when interrupted, else go to sleep.
CoordData(w) ==
  /\ ~fatal
  /\ wpc[w] = "data"
  /\ hdmi_assert_inbounds(HDMI_COORD_DATA_OFF)
  /\ LET cond == WaitCondition(hdmi_ioread32(regs, HDMI_COORD_DATA_OFF))
         wc == WaitCondTimeout(cond, left[w])
     IN
       /\ regs' = AfterRead(regs, HDMI_COORD_DATA_OFF)
       /\ lastcond' = [lastcond EXCEPT ![w] = IF cond THEN "T" ELSE "F"]
       /\ left' = [left EXCEPT ![w] = wc.ret]
       /\ IF wc.stop
            THEN /\ Return(w, wc.ret)
                 /\ tstate' = [tstate EXCEPT ![w] = "RUNNING"]
                 /\ waitq' = waitq \ {w}
            ELSE IF wint[w] # 0
              THEN /\ Return(w, wint[w])
                   /\ UNCHANGED <<tstate, waitq>>
              ELSE /\ wpc' = [wpc EXCEPT ![w] = "sleep"]
                   /\ UNCHANGED <<wres, wret, tstate, waitq>>
  /\ UNCHANGED <<fatal, isrVars, wint, sigpend, queued, woke>>
  /\ UNCHANGED lifeVars
  /\ UNCHANGED auxVars

\* schedule_timeout returns: the task is runnable again.
Resume(w) ==
  /\ ~fatal
  /\ wpc[w] = "sleep"
  /\ tstate[w] = "RUNNING"
  /\ wpc' = [wpc EXCEPT ![w] = "prep"]
  /\ UNCHANGED <<regs, fatal, isrVars, left, wint, sigpend, tstate, waitq,
                 wres, wret, queued, woke, lastcond>>
  /\ UNCHANGED lifeVars
  /\ UNCHANGED auxVars

\* A jiffy passes for a caller asleep in schedule_timeout; when none is
\* left its timer wakes it.  The entry stays on the queue.
Tick(w) ==
  /\ ~fatal
  /\ wpc[w] = "sleep"
  /\ tstate[w] = "INTERRUPTIBLE"
  /\ left[w] > 0
  /\ left' = [left EXCEPT ![w] = left[w] - 1]
  /\ IF left[w] = 1
       THEN /\ tstate' = [tstate EXCEPT ![w] = "RUNNING"]
            /\ woke' = [woke EXCEPT ![w] = "timer"]
            /\ lastcond' = [lastcond EXCEPT ![w] = "none"]
       ELSE UNCHANGED <<tstate, woke, lastcond>>
  /\ UNCHANGED <<regs, fatal, isrVars, wpc, wint, sigpend, waitq, wres, wret,
                 queued>>
  /\ UNCHANGED lifeVars
  /\ UNCHANGED auxVars

\* A signal is sent to a caller inside the ioctl; it wakes the caller if it
\* is in interruptible sleep.
Signal(w) ==
  /\ ~fatal
  /\ wpc[w] \notin {"idle", "done"}
  /\ ~sigpend[w]
  /\ sigpend' = [sigpend EXCEPT ![w] = TRUE]
  /\ IF tstate[w] = "INTERRUPTIBLE"
       THEN /\ tstate' = [tstate EXCEPT ![w] = "RUNNING"]
            /\ woke' = [woke EXCEPT ![w] = "signal"]
            /\ lastcond' = [lastcond EXCEPT ![w] = "none"]
       ELSE UNCHANGED <<tstate, woke, lastcond>>
  /\ UNCHANGED <<regs, fatal, isrVars, wpc, left, wint, waitq, wres, wret,
                 queued>>
  /\ UNCHANGED lifeVars
  /\ UNCHANGED auxVars

(***************************************************************************)
(* Device setup and teardown: hdmi_probe and hdmi_remove.                  *)
(*                                                                         *)
(* lpc is the position of the driver binding:                              *)
(*   unbound   no driver bound, never bound or after a failed probe        *)
(*   probe     inside hdmi_probe, before the label err                     *)
(*   err       hdmi_probe at the label err                                 *)
(*   failed    hdmi_probe about to return its error to the driver core     *)
(*   bound     hdmi_probe returned 0                                       *)
(*   remove    inside hdmi_remove                                          *)
(*   removed   hdmi_remove about to return to the driver core              *)
(*   detached  no driver bound, after hdmi_remove                          *)
(***************************************************************************)
\* Errno values the helpers of hdmi_probe hand back.
ENOMEM == 12
EBUSY == 16
ENXIO == 6

\* The resources acquired through devres (devm_*, dmam_*), which the driver
\* core releases after a failed probe and after remove.
Managed == {"mmio", "buffer", "palette", "irq"}

\* The bus addresses dmam_alloc_attrs may hand out.  0 is one of them: the
\* allocation reports failure through its return value only (line 559),
\* and the driver stores whatever address it is given (line 567).
BusAddrs == {0, 4096, 8192}

\* Variant: the device is started before it is told the buffer address.
ProbeOrderStartFirst ==
  <<"create", "map", "buffer", "palette", "irq", "register",
    "wr_ctrl", "wr_buf", "wr_gie", "wr_ier", "rd_coord", "return">>

\* Variant: interrupts are enabled before the buffer address is written.
ProbeOrderIrqFirst ==
  <<"create", "map", "buffer", "palette", "irq", "register",
    "wr_gie", "wr_ier", "wr_buf", "rd_coord", "wr_ctrl", "return">>

\* Variant: the palette is allocated before the buffer.
ProbeOrderPaletteFirst ==
  <<"create", "map", "palette", "buffer", "irq", "register",
    "wr_buf", "wr_gie", "wr_ier", "rd_coord", "wr_ctrl", "return">>

\* Variant: the buffer address is not written.
ProbeOrderNoAddress ==
  <<"create", "map", "buffer", "palette", "irq", "register",
    "wr_gie", "wr_ier", "rd_coord", "wr_ctrl", "return">>

\* The statements of hdmi_probe in program order (lines 654-685).
ProbeOrder ==
  <<"create", "map", "buffer", "palette", "irq", "register",
    "wr_buf", "wr_gie", "wr_ier", "rd_coord", "wr_ctrl", "return">>

\* Variant: the fb_info is released before the device is stopped.
RemoveOrderReleaseFirst ==
  <<"unregister", "release", "wr_ctrl", "wr_gie", "wr_ier", "rd_coord",
    "return">>

\* The statements of hdmi_remove in program order (lines 717-736).
RemoveOrder ==
  <<"wr_ctrl", "wr_gie", "wr_ier", "rd_coord", "unregister", "release",
    "return">>

\* The helpers of hdmi_probe that acquire a resource.
Helpers == {"create", "map", "buffer", "palette", "irq"}

\* The resource a helper acquires.
HelperResource(h) ==
  CASE h = "create" -> "fbinfo"
    [] h = "map" -> "mmio"
    [] h = "buffer" -> "buffer"
    [] h = "palette" -> "palette"
    [] h = "irq" -> "irq"

\* The errors a step of hdmi_probe can fail with.
StepErrors(h) ==
  CASE h = "create" -> {-ENOMEM}
    [] h = "map" -> {-EBUSY, -ENOMEM}
    [] h = "buffer" -> {-ENOMEM}
    [] h = "palette" -> {-ENOMEM}
    [] h = "irq" -> {-ENXIO, -EBUSY}
    [] h = "register" -> {-ENXIO}

\* Variant: the start value is written one word past the register block.
ProbeWritesPastEnd(step, addr) ==
  CASE step = "wr_buf" -> <<HDMI_BUF_OFF, addr>>
    [] step = "wr_gie" -> <<HDMI_GIE_OFF, 1>>
    [] step = "wr_ier" -> <<HDMI_IER_OFF, HDMI_VBLANK_IRQ>>
    [] step = "wr_ctrl" -> <<HDMI_MMIO_LEN, CTRL_START>>

\* The register writes of hdmi_probe (lines 675-682).
ProbeWrites(step, addr) ==
  CASE step = "wr_buf" -> <<HDMI_BUF_OFF, addr>>
    [] step = "wr_gie" -> <<HDMI_GIE_OFF, 1>>
    [] step = "wr_ier" -> <<HDMI_IER_OFF, HDMI_VBLANK_IRQ>>
    [] step = "wr_ctrl" -> <<HDMI_CTRL_OFF, CTRL_START>>

RemoveWritesClearBuffer(step) ==
  CASE step = "wr_ctrl" -> <<HDMI_CTRL_OFF, 0>>
    [] step = "wr_gie" -> <<HDMI_GIE_OFF, 0>>
    [] step = "wr_ier" -> <<HDMI_BUF_OFF, 0>>

\* The register writes of hdmi_remove (lines 717-720).
RemoveWrites(step) ==
  CASE step = "wr_ctrl" -> <<HDMI_CTRL_OFF, 0>>
    [] step = "wr_gie" -> <<HDMI_GIE_OFF, 0>>
    [] step = "wr_ier" -> <<HDMI_IER_OFF, 0>>

WriteSteps == {"wr_buf", "wr_gie", "wr_ier", "wr_ctrl"}

\* The control register holds the start value (the interrupt pending bit,
\* which the device owns, left aside).
Started(r) == BitClear1(r[HDMI_CTRL_OFF], CTRL_IRQ_PENDING) = CTRL_START

\* Variant: a generic error is returned, whichever step failed.
ProbeErrReturnGeneric(res) == -ENOMEM

\* Line 689: return res.
ProbeErrReturn(res) == res

\* framebuffer_release (lines 688 and 731) frees the fb_info: every caller
\* that is inside hdmi_ioctl at that moment goes on with a pointer to
\* freed memory, whatever hdmi_probe allocates afterwards.
HandleFreed ==
  [callers |-> dangling.callers
                 \cup {w \in Waiters : wpc[w] \notin {"idle", "done"}},
   query |-> dangling.query \/ qpc \notin {"idle", "done"}]

\* Variant: the label err releases nothing.
ErrReleaseNothing(h) == h

\* Line 688: framebuffer_release(info).
ErrRelease(h) == h \ {"fbinfo"}

\* hdmi_probe is called on an unbound device (lines 635-644).
ProbeEnter ==
  /\ ~fatal
  /\ lpc \in {"unbound", "detached"}
  /\ lpc' = "probe"
  /\ lidx' = 1
  /\ pres' = 0
  /\ plog' = <<>>
  /\ UNCHANGED <<regs, fatal, isrVars, waitVars, nattach, dangling, held, registered,
                 drvdata, bufaddr>>
  /\ UNCHANGED auxVars

\* One of the helpers at lines 654-668 is called: it acquires its resource
\* and returns 0, or fails with e and hdmi_probe goes to err.  a is the bus
\* address the buffer allocation hands out.
ProbeHelper(h, a, e) ==
  /\ ~fatal
  /\ lpc = "probe"
  /\ ProbeOrder[lidx] = h
  /\ h \in Helpers
  /\ IF e = 0
       THEN /\ held' = held \cup {HelperResource(h)}
            /\ bufaddr' = IF h = "buffer" THEN a ELSE bufaddr
            /\ plog' = Append(plog, <<"get", h, IF h = "buffer" THEN a ELSE 0>>)
            /\ lidx' = lidx + 1
            /\ UNCHANGED <<lpc, pres>>
       ELSE /\ pres' = e
            /\ lpc' = "err"
            /\ lidx' = 0
            /\ plog' = Append(plog, <<"fail", h, e>>)
            /\ UNCHANGED <<held, bufaddr>>
  /\ UNCHANGED <<regs, fatal, isrVars, waitVars, nattach, dangling, registered, drvdata>>
  /\ UNCHANGED auxVars

\* hdmi_probe_register_fbinfo (lines 622-633).  hdmi_assert_init at line
\* 625 stops the kernel when a field of the handle is not set, before
\* register_framebuffer is called.
ProbeRegister(e) ==
  /\ ~fatal
  /\ lpc = "probe"
  /\ ProbeOrder[lidx] = "register"
  /\ IF ~hdmi_assert_init(held, bufaddr)
       THEN /\ fatal' = TRUE
            /\ UNCHANGED <<registered, plog, lidx, lpc, pres>>
       ELSE /\ UNCHANGED fatal
            /\ IF e = 0
                 THEN /\ registered' = TRUE
                      /\ plog' = Append(plog, <<"get", "register", 0>>)
                      /\ lidx' = lidx + 1
                      /\ UNCHANGED <<lpc, pres>>
                 ELSE /\ pres' = e
                      /\ lpc' = "err"
                      /\ lidx' = 0
                      /\ plog' = Append(plog, <<"fail", "register", e>>)
                      /\ UNCHANGED registered
  /\ UNCHANGED <<regs, isrVars, waitVars, nattach, dangling, held, drvdata, bufaddr>>
  /\ UNCHANGED auxVars

\* One of the register writes at lines 675-682.
ProbeWrite ==
  /\ ~fatal
  /\ lpc = "probe"
  /\ ProbeOrder[lidx] \in WriteSteps
  /\ hdmi_assert_init(held, bufaddr)
  /\ LET wr == ProbeWrites(ProbeOrder[lidx], bufaddr) IN
       /\ hdmi_assert_inbounds(wr[1])
       /\ regs' = hdmi_iowrite32(regs, wr[1], wr[2])
       /\ plog' = Append(plog, Event("wr", wr[1], wr[2]))
  /\ lidx' = lidx + 1
  /\ UNCHANGED <<fatal, isrVars, waitVars, nattach, dangling, lpc, held, registered,
                 drvdata, bufaddr, pres>>
  /\ UNCHANGED auxVars

\* Line 680: the read that clears the coordinate valid bit.
ProbeReadCoord ==
  /\ ~fatal
  /\ lpc = "probe"
  /\ ProbeOrder[lidx] = "rd_coord"
  /\ hdmi_assert_init(held, bufaddr)
  /\ hdmi_assert_inbounds(HDMI_COORD_CTRL_OFF)
  /\ regs' = AfterRead(regs, HDMI_COORD_CTRL_OFF)
  /\ plog' = Append(plog,
                   Event("rd", HDMI_COORD_CTRL_OFF,
                         hdmi_ioread32(regs, HDMI_COORD_CTRL_OFF)))
  /\ lidx' = lidx + 1
  /\ UNCHANGED <<fatal, isrVars, waitVars, nattach, dangling, lpc, held, registered,
                 drvdata, bufaddr, pres>>
  /\ UNCHANGED auxVars

\* Lines 684-685: dev_set_drvdata and return 0.
ProbeReturn ==
  /\ ~fatal
  /\ lpc = "probe"
  /\ ProbeOrder[lidx] = "return"
  /\ nattach' = IF nattach < MaxAttach THEN nattach + 1 ELSE nattach
  /\ drvdata' = TRUE
  /\ pres' = 0
  /\ lpc' = "bound"
  /\ lidx' = 0
  /\ plog' = <<>>
  /\ UNCHANGED <<regs, fatal, isrVars, waitVars, held, registered, bufaddr,
                 dangling>>
  /\ UNCHANGED auxVars

\* Lines 687-688: the label err.
ProbeErr ==
  /\ ~fatal
  /\ lpc = "err"
  /\ held' = ErrRelease(held)
  /\ dangling' = IF ErrRelease(held) = held THEN dangling ELSE HandleFreed
  /\ plog' = Append(plog, <<"free", "fbinfo", 0>>)
  /\ lpc' = "failed"
  /\ UNCHANGED <<regs, fatal, isrVars, waitVars, nattach, lidx, registered,
                 drvdata, bufaddr, pres>>
  /\ UNCHANGED auxVars

\* Line 689, or line 736: the function returns to the driver core, which
\* releases what was acquired through devres.  Freeing the interrupt waits
\* for a handler that is running to return.
DevresRelease ==
  /\ ~fatal
  /\ lpc \in {"failed", "removed"}
  /\ ipc = 0
  /\ held' = held \ Managed
  /\ bufaddr' = 0
  /\ pres' = IF lpc = "failed" THEN ProbeErrReturn(pres) ELSE pres
  /\ lpc' = IF lpc = "failed" THEN "unbound" ELSE "detached"
  /\ UNCHANGED <<regs, fatal, isrVars, waitVars, nattach, dangling, lidx, registered,
                 drvdata, plog>>
  /\ UNCHANGED auxVars

\* hdmi_remove is called on a bound device (lines 692-714).
RemoveEnter ==
  /\ ~fatal
  /\ lpc = "bound"
  /\ drvdata
  /\ hdmi_assert_init(held, bufaddr)
  /\ lpc' = "remove"
  /\ lidx' = 1
  /\ plog' = <<>>
  /\ UNCHANGED <<regs, fatal, isrVars, waitVars, nattach, dangling, held,
                 registered, drvdata, bufaddr, pres>>
  /\ UNCHANGED auxVars

\* One of the register writes at lines 717-720.
RemoveWrite ==
  /\ ~fatal
  /\ lpc = "remove"
  /\ RemoveOrder[lidx] \in WriteSteps
  /\ hdmi_assert_init(held, bufaddr)
  /\ LET wr == RemoveWrites(RemoveOrder[lidx]) IN
       /\ hdmi_assert_inbounds(wr[1])
       /\ regs' = hdmi_iowrite32(regs, wr[1], wr[2])
       /\ plog' = Append(plog, Event("wr", wr[1], wr[2]))
  /\ lidx' = lidx + 1
  /\ UNCHANGED <<fatal, isrVars, waitVars, nattach, dangling, lpc, held, registered,
                 drvdata, bufaddr, pres>>
  /\ UNCHANGED auxVars

\* Line 723: the read that clears the coordinate valid bit.
RemoveReadCoord ==
  /\ ~fatal
  /\ lpc = "remove"
  /\ RemoveOrder[lidx] = "rd_coord"
  /\ hdmi_assert_init(held, bufaddr)
  /\ hdmi_assert_inbounds(HDMI_COORD_CTRL_OFF)
  /\ regs' = AfterRead(regs, HDMI_COORD_CTRL_OFF)
  /\ plog' = Append(plog,
                   Event("rd", HDMI_COORD_CTRL_OFF,
                         hdmi_ioread32(regs, HDMI_COORD_CTRL_OFF)))
  /\ lidx' = lidx + 1
  /\ UNCHANGED <<fatal, isrVars, waitVars, nattach, dangling, lpc, held, registered,
                 drvdata, bufaddr, pres>>
  /\ UNCHANGED auxVars

\* Line 730: unregister_framebuffer.  It takes the framebuffer out of the
\* table, so no new call reaches the driver; hdmi_remove has nothing that
\* waits for, or wakes, a call already inside hdmi_ioctl.
RemoveUnregister ==
  /\ ~fatal
  /\ lpc = "remove"
  /\ RemoveOrder[lidx] = "unregister"
  /\ registered' = FALSE
  /\ plog' = Append(plog, <<"free", "register", 0>>)
  /\ lidx' = lidx + 1
  /\ UNCHANGED <<regs, fatal, isrVars, waitVars, nattach, dangling, lpc, held, drvdata,
                 bufaddr, pres>>
  /\ UNCHANGED auxVars

\* Line 731: framebuffer_release.
RemoveRelease ==
  /\ ~fatal
  /\ lpc = "remove"
  /\ RemoveOrder[lidx] = "release"
  /\ held' = held \ {"fbinfo"}
  /\ dangling' = HandleFreed
  /\ plog' = Append(plog, <<"free", "fbinfo", 0>>)
  /\ lidx' = lidx + 1
  /\ UNCHANGED <<regs, fatal, isrVars, waitVars, nattach, lpc, registered,
                 drvdata, bufaddr, pres>>
  /\ UNCHANGED auxVars

\* Lines 733-736: the references are cleared and hdmi_remove returns.
RemoveReturn ==
  /\ ~fatal
  /\ lpc = "remove"
  /\ RemoveOrder[lidx] = "return"
  /\ drvdata' = FALSE
  /\ lpc' = "removed"
  /\ lidx' = 0
  /\ UNCHANGED <<regs, fatal, isrVars, waitVars, nattach, dangling, held, registered,
                 bufaddr, pres, plog>>
  /\ UNCHANGED auxVars

\* The device, once started, presents scan positions.
HwScanStarted(c) ==
  /\ Started(regs)
  /\ HwScan(c)

(***************************************************************************)
(* Specifications.                                                         *)
(***************************************************************************)
Hardware ==
  \/ \E v \in IsrCauses : HwRaise(v)
  \/ HwLower
  \/ \E c \in CoordWords : HwScan(c)

\* The device working as designed: the only cause it latches is the
\* per-frame one.
HardwareNormal ==
  \/ HwRaise(HDMI_VBLANK_IRQ)
  \/ HwLower
  \/ \E c \in CoordWords : HwScan(c)

Isr ==
  \/ IsrEnter
  \/ IsrStatus
  \/ IsrWake
  \/ IsrAck
  \/ IsrExit

WaiterStep(w) ==
  \/ Call(w)
  \/ CoordPoll(w)
  \/ CoordSpin(w)
  \/ CoordData0(w)
  \/ Prepare(w)
  \/ CoordData(w)
  \/ Resume(w)

\* The caller followed by Spec.
Caller == CHOOSE w \in Waiters : TRUE

\* One caller, with signals and the timeout, against the device and the
\* interrupt service routine.
Next ==
  \/ Hardware
  \/ Isr
  \/ WaiterStep(Caller)
  \/ Tick(Caller)
  \/ Signal(Caller)

Spec == Init /\ [][Next]_vars

\* All callers concurrently on the one wait queue, against the device
\* working as designed and the interrupt service routine; no signal is sent
\* and no timeout expires.
NextAll ==
  \/ HardwareNormal
  \/ Isr
  \/ \E w \in Waiters : WaiterStep(w)

SpecAll == Init /\ [][NextAll]_vars

\* One caller against the device when no interrupt is ever delivered:
\* hdmi_isr never runs.  The caller, being a runnable task, keeps taking
\* steps, and the clock keeps ticking while it sleeps; nothing is assumed
\* of the device.
NextNoIrq ==
  \/ Hardware
  \/ WaiterStep(Caller)
  \/ Tick(Caller)
  \/ Signal(Caller)

SpecNoIrq ==
  /\ Init
  /\ [][NextNoIrq]_vars
  /\ WF_vars(WaiterStep(Caller))
  /\ WF_vars(Tick(Caller))

(***************************************************************************)
(* The life of the driver binding, from a device nobody has bound: probe,  *)
(* with every step free to fail, remove, and probe again, while a consumer *)
(* calls ioctl(FBIO_WAITFORVSYNC) whenever the framebuffer is registered.  *)
(* Interrupt delivery is left out: a consumer that sleeps is woken by its  *)
(* timeout.                                                                *)
(***************************************************************************)
\* No driver bound, nothing allocated, nobody inside the driver.
InitUnbound ==
  /\ ipc = 0
  /\ isrv = 0
  /\ iret = "none"
  /\ ilog = <<>>
  /\ warned = FALSE
  /\ fatal = FALSE
  /\ wpc = [w \in Waiters |-> "idle"]
  /\ left = [w \in Waiters |-> 0]
  /\ wint = [w \in Waiters |-> 0]
  /\ sigpend = [w \in Waiters |-> FALSE]
  /\ tstate = [w \in Waiters |-> "RUNNING"]
  /\ waitq = {}
  /\ wres = [w \in Waiters |-> 0]
  /\ wret = [w \in Waiters |-> 0]
  /\ queued = [w \in Waiters |-> FALSE]
  /\ woke = [w \in Waiters |-> "none"]
  /\ lastcond = [w \in Waiters |-> "none"]
  /\ lpc = "unbound"
  /\ lidx = 0
  /\ held = {}
  /\ registered = FALSE
  /\ drvdata = FALSE
  /\ bufaddr = 0
  /\ pres = 0
  /\ plog = <<>>
  /\ nattach = 0
  /\ dangling = NoneDangling
  /\ InitHarness
  /\ word = <<0, 0>>
  /\ InitQueryVars
  /\ InitGeom

\* The device after reset, with no driver bound: stopped, interrupts off.
InitLife ==
  /\ regs = [o \in Offsets |-> 0]
  /\ InitUnbound

Probe ==
  \/ ProbeEnter
  \/ \E h \in Helpers, a \in BusAddrs :
       \E e \in {0} \cup StepErrors(h) : ProbeHelper(h, a, e)
  \/ \E e \in {0} \cup StepErrors("register") : ProbeRegister(e)
  \/ ProbeWrite
  \/ ProbeReadCoord
  \/ ProbeReturn
  \/ ProbeErr
  \/ DevresRelease

Remove ==
  \/ RemoveEnter
  \/ RemoveWrite
  \/ RemoveReadCoord
  \/ RemoveUnregister
  \/ RemoveRelease
  \/ RemoveReturn

\* A caller inside hdmi_ioctl reaches for the handle it entered with
\* (lines 105-110) after it has been freed, and the kernel stops.  That the
\* driver holds a handle again, from a later hdmi_probe, does not make the
\* caller's pointer good.
CallerUseAfterFree(w) ==
  /\ ~fatal
  /\ wpc[w] \notin {"idle", "done"}
  /\ w \in dangling.callers
  /\ fatal' = TRUE
  /\ UNCHANGED <<regs, isrVars, waitVars>>
  /\ UNCHANGED lifeVars
  /\ UNCHANGED auxVars

NextLife ==
  \/ Probe
  \/ Remove
  \/ \E c \in CoordWords : HwScanStarted(c)
  \/ WaiterStep(Caller)
  \/ Tick(Caller)
  \/ CallerUseAfterFree(Caller)

SpecLife == InitLife /\ [][NextLife]_vars

(***************************************************************************)
(* The lifecycle with interrupts.  The handler installed at line 607 with  *)
(* the device handle as its cookie stays installed until the driver core   *)
(* releases it, after hdmi_probe has failed or hdmi_remove has returned.   *)
(* The handle itself is freed inside those functions, at lines 688 and     *)
(* 731.  A handler that uses the handle after that reads freed memory: it  *)
(* either stops the kernel or goes on with what the memory still holds.    *)
(***************************************************************************)
\* The started device, with its interrupt enabled, latches the per-frame
\* cause and asserts its line.
HwRaiseStarted ==
  /\ Started(regs)
  /\ regs[HDMI_GIE_OFF] = 1
  /\ BitAnd1(regs[HDMI_IER_OFF], HDMI_VBLANK_IRQ) # 0
  /\ HwRaise(HDMI_VBLANK_IRQ)

\* The kernel calls the handler installed at line 607.  The call is made
\* when the line is asserted, but the handler runs on its own CPU and
\* reaches lines 152 and 155 some time later, when hdmi_remove may have
\* cleared the control register (line 717) and more: the state does not
\* record a call on its way, so the handler may start whenever it is
\* installed, and finds out at line 155 whether the interrupt is pending.
IrqDeliver ==
  /\ "irq" \in held
  /\ IsrEnter

\* hdmi_isr reaches for its cookie after the handle has been freed, and
\* the kernel stops: hdmi_assert_init fails on entry (line 152, position
\* 0, before any register is read) or in one of the register accessors
\* (lines 75 and 82, at a later position).
IsrUseAfterFree ==
  /\ ~fatal
  /\ ipc \in 0..Len(IsrOrder)
  /\ "fbinfo" \notin held
  /\ fatal' = TRUE
  /\ UNCHANGED <<regs, isrVars, waitVars>>
  /\ UNCHANGED lifeVars
  /\ UNCHANGED auxVars

\* The same in the life of the binding, where the kernel enters the
\* handler only while it is installed.
IrqUseAfterFree ==
  /\ ipc = 0 => "irq" \in held
  /\ IsrUseAfterFree

NextLifeIrq ==
  \/ Probe
  \/ Remove
  \/ \E c \in CoordWords : HwScanStarted(c)
  \/ HwRaiseStarted
  \/ HwLower
  \/ IrqDeliver
  \/ IsrStatus
  \/ IsrWake
  \/ IsrAck
  \/ IsrExit
  \/ IrqUseAfterFree

SpecLifeIrq == InitLife /\ [][NextLifeIrq]_vars

(***************************************************************************)
(* The register accessors on their own (lines 65-85), applied to a         *)
(* simulated register block with offsets and values chosen freely.  The    *)
(* handle is the initialised one of Init, so hdmi_assert_init passes and   *)
(* the outcome is decided by hdmi_assert_inbounds.                         *)
(***************************************************************************)
\* Values written: both ends of what a register word of the model holds.
RegValues == {0, 2147483647}

\* Lines 73-78: hdmi_iowrite32(info, off, val).
RegWrite(off, val) ==
  /\ ~fatal
  /\ hdmi_assert_init(held, bufaddr)
  /\ acc' = [op |-> "wr", off |-> off, val |-> val, ret |-> 0]
  /\ IF hdmi_assert_inbounds(off)
       THEN /\ blk' = hdmi_iowrite32(blk, off, val)
            /\ UNCHANGED fatal
       ELSE /\ fatal' = TRUE
            /\ UNCHANGED blk
  /\ UNCHANGED <<regs, isrVars, waitVars, lifeVars, word, dec, queryVars>>
  /\ UNCHANGED geomVars

\* Lines 80-85: hdmi_ioread32(info, off).
RegRead(off) ==
  /\ ~fatal
  /\ hdmi_assert_init(held, bufaddr)
  /\ IF hdmi_assert_inbounds(off)
       THEN /\ acc' = [op |-> "rd", off |-> off, val |-> 0,
                       ret |-> hdmi_ioread32(blk, off)]
            /\ UNCHANGED fatal
       ELSE /\ acc' = [op |-> "rd", off |-> off, val |-> 0, ret |-> 0]
            /\ fatal' = TRUE
  /\ UNCHANGED <<regs, blk, isrVars, waitVars, lifeVars, word, dec,
                 queryVars>>
  /\ UNCHANGED geomVars

NextRegs ==
  \/ \E off \in BusOffsets, val \in RegValues : RegWrite(off, val)
  \/ \E off \in BusOffsets : RegRead(off)

SpecRegs == Init /\ [][NextRegs]_vars

(***************************************************************************)
(* The decoder and the three classifications on their own (lines 110-131), *)
(* applied to a coordinate word chosen at the start.                       *)
(***************************************************************************)
\* Bits 31:16 of the words tried: frame ids at both ends and around bit 31,
\* with every value of the upper four bits of the row.
HiHalves == {f * 16 + k : f \in {0, 1, 2047, 2048, 4095}, k \in 0..15}

\* Bits 15:0 of the words tried: every value of the lower six bits of the
\* row, with columns at both ends and around the end of horizontal blank.
LoHalves == {k * 1024 + c : k \in 0..63, c \in {0, 159, 160, 1023}}

DecodeWords == {<<hi, lo>> : hi \in HiHalves, lo \in LoHalves}

InitDecode ==
  /\ InitDriver
  /\ InitHarness
  /\ word \in DecodeWords
  /\ InitQueryVars
  /\ InitGeom

\* Lines 110-115 on `word`, and lines 118-131 on the result.
Decode ==
  /\ ~fatal
  /\ ~dec.done
  /\ LET coord == hdmi_coordinate_decode(word) IN
       dec' = [done |-> TRUE,
               fid |-> coord.fid, row |-> coord.row, col |-> coord.col,
               vblank |-> hdmi_coordinate_is_vblank(coord),
               hblank |-> hdmi_coordinate_is_hblank(coord),
               vsync |-> hdmi_coordinate_is_vsync(coord)]
  /\ UNCHANGED <<regs, fatal, isrVars, waitVars, lifeVars, blk, acc, word,
                 queryVars>>
  /\ UNCHANGED geomVars

SpecDecode == InitDecode /\ [][Decode]_vars

(***************************************************************************)
(* hdmi_check_var and hdmi_set_par on their own (lines 315-382 and         *)
(* 474-485), applied to a proposal chosen at the start, and applied again  *)
(* to what the previous call left in *var.                                 *)
(***************************************************************************)
\* How many times hdmi_check_var is applied to the one struct.
MaxChecks == 2

\* The fields hdmi_check_var does not test, as the fixed mode has them or
\* all different from it.
OtherFields(alt) ==
  IF alt
    THEN [hdmi_var_init EXCEPT
            !.red = [offset |-> 11, length |-> 5, msb_right |-> 0],
            !.green = [offset |-> 5, length |-> 6, msb_right |-> 0],
            !.blue = [offset |-> 0, length |-> 5, msb_right |-> 0],
            !.transp = [offset |-> 0, length |-> 0, msb_right |-> 1],
            !.nonstd = 1, !.activate = 1,
            !.height = 100, !.width = 200,
            !.pixclock = 25000,
            !.left_margin = 1, !.right_margin = 2,
            !.upper_margin = 3, !.lower_margin = 4,
            !.hsync_len = 5, !.vsync_len = 6,
            !.sync = {},
            !.rotate = 1]
    ELSE hdmi_var_init

\* The proposals tried: every tested field at the accepted value and off
\* it, the virtual resolution under, at and over the physical one.
Proposals ==
  {[OtherFields(alt) EXCEPT
      !.xres = x, !.yres = y,
      !.xres_virtual = xv, !.yres_virtual = yv,
      !.xoffset = xo, !.yoffset = yo,
      !.bits_per_pixel = b, !.grayscale = g,
      !.vmode = [mode |-> m, rest |-> r]] :
     x \in {640, 800}, y \in {480, 600},
     xv \in {320, 640, 1280}, yv \in {240, 480, 960},
     xo \in {0, 8}, yo \in {0, 8},
     b \in {16, 32}, g \in {0, 1},
     m \in {"NONINTERLACED", "INTERLACED"}, r \in {{}, {"YWRAP"}},
     alt \in BOOLEAN}

InitCheckVar ==
  /\ InitDriver
  /\ InitHarness
  /\ word = <<0, 0>>
  /\ InitQueryVars
  /\ var \in Proposals
  /\ var0 = var
  /\ cvres = <<>>
  /\ spres = 0 - 1
  /\ mapped = FALSE

\* A call of hdmi_check_var(var, info).
CheckVar ==
  /\ ~fatal
  /\ registered
  /\ hdmi_assert_init(held, bufaddr)
  /\ Len(cvres) < MaxChecks
  /\ var0' = var
  /\ var' = hdmi_check_var(var).var
  /\ cvres' = Append(cvres, hdmi_check_var(var).ret)
  /\ UNCHANGED <<regs, fatal, isrVars, waitVars, lifeVars, harnessVars,
                 queryVars, spres, mapped>>

\* A call of hdmi_set_par(info); info->var is the fixed mode (line 511).
SetPar ==
  /\ ~fatal
  /\ registered
  /\ hdmi_assert_init(held, bufaddr)
  /\ spres = 0 - 1
  /\ spres' = hdmi_set_par(hdmi_var_init)
  /\ UNCHANGED <<regs, fatal, isrVars, waitVars, lifeVars, harnessVars,
                 queryVars, var, var0, cvres, mapped>>

NextCheckVar ==
  \/ CheckVar
  \/ SetPar

SpecCheckVar == InitCheckVar /\ [][NextCheckVar]_vars

(***************************************************************************)
(* ioctl(FBIOGET_VBLANK): lines 413-441, with hdmi_coordinate_read (lines  *)
(* 101-116) expanded at its call site.                                     *)
(*                                                                         *)
(* Positions of the caller:                                                *)
(*   idle   not in the ioctl                                               *)
(*   poll   hdmi_coordinate_read at the test of its spin loop              *)
(*   spin   hdmi_coordinate_read in the body of its spin loop              *)
(*   data   hdmi_coordinate_read reading the data                          *)
(*   done   the ioctl has returned qret                                    *)
(***************************************************************************)
\* The flags set at lines 424-426.
HaveFlags ==
  {"HAVE_VBLANK", "HAVE_HBLANK", "HAVE_COUNT", "HAVE_VCOUNT", "HAVE_HCOUNT",
   "HAVE_VSYNC"}

\* The destination pointers tried: one that can be written and one that
\* cannot.
UserPointers == {"ok", "bad"}

\* copy_to_user at line 438: the number of bytes it could not copy, as
\* zero or not.
copy_to_user(p) == IF p = "ok" THEN 0 ELSE 1

\* The scan positions the device presents to the query: rows on both sides
\* of vertical sync and of the end of vertical blank, columns on both
\* sides of the end of horizontal blank.
QueryWords ==
  {PackCoord(f, r, c) : f \in {0, 1}, r \in {9, 10, 11, 12, 44, 45},
                        c \in {159, 160}}

\* qlog with one more register read; a read that repeats the one before it
\* is noted once, so that spinning does not lengthen the log.
Note(log, e) ==
  IF Len(log) > 0 /\ log[Len(log)] = e THEN log ELSE Append(log, e)

\* Lines 427-435: the struct fb_vblank built from one decode.
VblankResult(coord) ==
  [copied |-> TRUE,
   count |-> coord.fid,
   vcount |-> coord.row,
   hcount |-> coord.col,
   flags |-> HaveFlags
             \cup (IF hdmi_coordinate_is_vblank(coord)
                     THEN {"VBLANKING"} ELSE {})
             \cup (IF hdmi_coordinate_is_hblank(coord)
                     THEN {"HBLANKING"} ELSE {})
             \cup (IF hdmi_coordinate_is_vsync(coord)
                     THEN {"VSYNCING"} ELSE {})]

\* Lines 406-427 and 105: entry into the ioctl and into
\* hdmi_coordinate_read.
QueryCall(p) ==
  /\ ~fatal
  /\ qpc \in {"idle", "done"}
  /\ registered
  /\ hdmi_assert_init(held, bufaddr)
  /\ qpc' = "poll"
  /\ qarg' = p
  /\ qlog' = <<>>
  /\ qout' = NoResult
  /\ qret' = 0
  /\ dangling' = [dangling EXCEPT !.query = FALSE]
  /\ UNCHANGED <<regs, fatal, isrVars, waitVars, harnessVars>>
  /\ UNCHANGED <<lpc, lidx, held, registered, drvdata, bufaddr, pres, plog,
                 nattach>>
  /\ UNCHANGED geomVars

\* Line 108: the test of the spin loop.
QueryPoll ==
  /\ ~fatal
  /\ qpc = "poll"
  /\ hdmi_assert_inbounds(HDMI_COORD_CTRL_OFF)
  /\ LET ctrl == hdmi_ioread32(regs, HDMI_COORD_CTRL_OFF) IN
       /\ regs' = AfterRead(regs, HDMI_COORD_CTRL_OFF)
       /\ qlog' = Note(qlog, Event("rd", HDMI_COORD_CTRL_OFF, ctrl))
       /\ qpc' = IF CoordValid(ctrl) THEN "data" ELSE "spin"
  /\ UNCHANGED <<fatal, isrVars, waitVars, lifeVars, harnessVars, qarg, qout,
                 qret>>
  /\ UNCHANGED geomVars

\* Line 109: the empty body of the spin loop; back to the test.
QuerySpin ==
  /\ ~fatal
  /\ qpc = "spin"
  /\ qpc' = "poll"
  /\ UNCHANGED <<regs, fatal, isrVars, waitVars, lifeVars, harnessVars, qarg,
                 qlog, qout, qret>>
  /\ UNCHANGED geomVars

\* Variant: the decoder reads the data register once for the frame id and
\* once more for the row and the column, and the device may present a new
\* scan position between the two reads.
QueryDataTwoReads ==
  /\ ~fatal
  /\ qpc = "data"
  /\ hdmi_assert_inbounds(HDMI_COORD_DATA_OFF)
  /\ \E second \in CoordWords \cup {regs[HDMI_COORD_DATA_OFF]} :
       LET data == hdmi_ioread32(regs, HDMI_COORD_DATA_OFF)
           coord == [fid |-> DecodeCoord(data).fid,
                     row |-> DecodeCoord(second).row,
                     col |-> DecodeCoord(second).col]
       IN
         /\ regs' = AfterRead(regs, HDMI_COORD_DATA_OFF)
         /\ qlog' = Append(qlog, Event("rd", HDMI_COORD_DATA_OFF, data))
         /\ IF copy_to_user(qarg) # 0
              THEN qout' = NoResult /\ qret' = 0 - EFAULT
              ELSE qout' = VblankResult(coord) /\ qret' = 0
  /\ qpc' = "done"
  /\ UNCHANGED <<fatal, isrVars, waitVars, lifeVars, harnessVars, qarg>>
  /\ UNCHANGED geomVars

\* Lines 111-115 and 428-440: the data are read and decoded, the result is
\* built and copied to the caller, and the ioctl returns.
QueryData ==
  /\ ~fatal
  /\ qpc = "data"
  /\ hdmi_assert_inbounds(HDMI_COORD_DATA_OFF)
  /\ LET data == hdmi_ioread32(regs, HDMI_COORD_DATA_OFF)
         coord == DecodeCoord(data)
     IN
       /\ regs' = AfterRead(regs, HDMI_COORD_DATA_OFF)
       /\ qlog' = Append(qlog, Event("rd", HDMI_COORD_DATA_OFF, data))
       /\ IF copy_to_user(qarg) # 0
            THEN qout' = NoResult /\ qret' = 0 - EFAULT
            ELSE qout' = VblankResult(coord) /\ qret' = 0
  /\ qpc' = "done"
  /\ UNCHANGED <<fatal, isrVars, waitVars, lifeVars, harnessVars, qarg>>
  /\ UNCHANGED geomVars

QueryStep ==
  \/ QueryPoll
  \/ QuerySpin
  \/ QueryData

\* One caller of ioctl(FBIOGET_VBLANK) against the running device.
NextQuery ==
  \/ \E c \in QueryWords : HwScanStarted(c)
  \/ \E p \in UserPointers : QueryCall(p)
  \/ QueryStep

SpecQuery == Init /\ [][NextQuery]_vars

\* The caller is scheduled as long as it has a step to take; nothing is
\* assumed of the device.
SpecQueryFair == SpecQuery /\ WF_vars(QueryStep)

\* The steps of ioctl(FBIO_WAITFORVSYNC) up to the point where the caller
\* goes to sleep: its calls of hdmi_coordinate_read and what is between.
DecoderStep(w) ==
  \/ Call(w)
  \/ CoordPoll(w)
  \/ CoordSpin(w)
  \/ CoordData0(w)
  \/ Prepare(w)
  \/ CoordData(w)

\* Several decoders at once: every caller of ioctl(FBIO_WAITFORVSYNC) and
\* the caller of ioctl(FBIOGET_VBLANK) run hdmi_coordinate_read
\* concurrently while the device advances the scan position.
NextDecoders ==
  \/ \E c \in CoordWords : HwScan(c)
  \/ \E w \in Waiters : DecoderStep(w)
  \/ \E p \in UserPointers : QueryCall(p)
  \/ QueryStep

SpecDecoders == Init /\ [][NextDecoders]_vars

(***************************************************************************)
(* Attach to a device that a previous run has used.  The device is        *)
(* stopped, but its coordinate registers may still hold the last position  *)
(* it latched, with the valid bit set if nobody has read the coordinate    *)
(* control register since (the case lines 679-680 provide for).  A         *)
(* consumer calls ioctl(FBIOGET_VBLANK) whenever the framebuffer is        *)
(* registered.                                                             *)
(***************************************************************************)
\* What the previous run left in the coordinate data register: a position
\* of a frame the new run does not present.
LeftoverWords == {PackCoord(7, 100, 5)}

InitLeftover ==
  /\ \E d \in LeftoverWords, v \in {0, 1} :
       regs = [o \in Offsets |->
                 CASE o = HDMI_COORD_DATA_OFF -> d
                   [] o = HDMI_COORD_CTRL_OFF -> v
                   [] OTHER -> 0]
  /\ InitUnbound

\* The caller of ioctl(FBIOGET_VBLANK) reaches for the handle it entered
\* with (lines 105-110) after it has been freed, and the kernel stops, also
\* when a later hdmi_probe has allocated a handle again.
QueryUseAfterFree ==
  /\ ~fatal
  /\ qpc \notin {"idle", "done"}
  /\ dangling.query
  /\ fatal' = TRUE
  /\ UNCHANGED <<regs, isrVars, waitVars>>
  /\ UNCHANGED lifeVars
  /\ UNCHANGED auxVars

NextAttach ==
  \/ Probe
  \/ Remove
  \/ \E c \in CoordWords : HwScanStarted(c)
  \/ \E p \in UserPointers : QueryCall(p)
  \/ QueryStep
  \/ QueryUseAfterFree

SpecAttach == InitLeftover /\ [][NextAttach]_vars

(***************************************************************************)
(* The whole driver: the lifecycle with interrupts, and a consumer that    *)
(* uses every operation of hdmi_fbops whenever the framebuffer is          *)
(* registered.                                                             *)
(***************************************************************************)
\* hdmi_mmap (lines 389-399): the buffer is mapped into the consumer.
Mmap ==
  /\ ~fatal
  /\ registered
  /\ hdmi_assert_init(held, bufaddr)
  /\ ~mapped
  /\ mapped' = TRUE
  /\ UNCHANGED <<regs, fatal, isrVars, waitVars, lifeVars, harnessVars,
                 queryVars, var, var0, cvres, spres>>

\* The consumer is between two calls.
ConsumerIdle ==
  /\ wpc[Caller] \in {"idle", "done"}
  /\ qpc \in {"idle", "done"}

\* The consumer holds nothing from an earlier call.
ConsumerFresh ==
  /\ wpc[Caller] = "idle"
  /\ qpc = "idle"
  /\ cvres = <<>>
  /\ spres = 0 - 1
  /\ ~mapped

\* The consumer drops what its last call returned, and its mapping.
ConsumerForget ==
  /\ ~fatal
  /\ ConsumerIdle
  /\ ~ConsumerFresh
  /\ wpc' = [wpc EXCEPT ![Caller] = "idle"]
  /\ left' = [left EXCEPT ![Caller] = 0]
  /\ wint' = [wint EXCEPT ![Caller] = 0]
  /\ sigpend' = [sigpend EXCEPT ![Caller] = FALSE]
  /\ wres' = [wres EXCEPT ![Caller] = 0]
  /\ wret' = [wret EXCEPT ![Caller] = 0]
  /\ queued' = [queued EXCEPT ![Caller] = FALSE]
  /\ woke' = [woke EXCEPT ![Caller] = "none"]
  /\ lastcond' = [lastcond EXCEPT ![Caller] = "none"]
  /\ qpc' = "idle"
  /\ qarg' = "ok"
  /\ qlog' = <<>>
  /\ qout' = NoResult
  /\ qret' = 0
  /\ var' = hdmi_var_init
  /\ var0' = hdmi_var_init
  /\ cvres' = <<>>
  /\ spres' = 0 - 1
  /\ mapped' = FALSE
  /\ dangling' = NoneDangling
  /\ UNCHANGED <<regs, fatal, isrVars, tstate, waitq, harnessVars>>
  /\ UNCHANGED <<lpc, lidx, held, registered, drvdata, bufaddr, pres, plog,
                 nattach>>

\* One consumer thread: it makes one call at a time and keeps nothing from
\* one call to the next.  Its timeout is not followed here: a consumer
\* that sleeps is woken by hdmi_isr.
Consumer ==
  \/ ConsumerFresh /\ Call(Caller)
  \/ CoordPoll(Caller)
  \/ CoordSpin(Caller)
  \/ CoordData0(Caller)
  \/ Prepare(Caller)
  \/ CoordData(Caller)
  \/ Resume(Caller)
  \/ CallerUseAfterFree(Caller)
  \/ ConsumerFresh /\ \E p \in UserPointers : QueryCall(p)
  \/ QueryStep
  \/ QueryUseAfterFree
  \/ ConsumerFresh /\ CheckVar
  \/ ConsumerFresh /\ SetPar
  \/ ConsumerFresh /\ Mmap
  \/ ConsumerForget

NextDriver ==
  \/ NextLifeIrq
  \/ Consumer

SpecDriver == InitLife /\ [][NextDriver]_vars

(***************************************************************************)
(* Properties of hdmi_isr.                                                 *)
(***************************************************************************)
IsRead(e, off) == e[1] = "rd" /\ e[2] = off

\* The events of a log of the given kind.
OfKind(log, kind) == SelectSeq(log, LAMBDA e : e[1] = kind)

\* The reads of the interrupt status register in a log.
StatusReads(log) == SelectSeq(log, LAMBDA e : IsRead(e, HDMI_ISR_OFF))

\* A step of hdmi_isr that leaves the registers, the wait queue and every
\* caller's task state as they were.
IsrStepHasNoEffect ==
  /\ regs' = regs
  /\ waitq' = waitq
  /\ tstate' = tstate
  /\ woke' = woke

\* C1: when hdmi_isr is invoked while bit 0x200 of the control register is
\* clear it writes no register, wakes no caller on hdmi_vblank_waitq and
\* returns IRQ_NONE: both its steps (the check and the return) leave the
\* registers, the queue and the task states unchanged.
C1_IsrNotPendingIsNoop ==
  [][/\ (ipc = 0 /\ ipc' # 0
           /\ BitAnd1(regs[HDMI_CTRL_OFF], CTRL_IRQ_PENDING) = 0)
          => /\ ipc' = IsrAtReturn
             /\ iret' = "IRQ_NONE"
             /\ Len(ilog') = 1
             /\ IsRead(ilog'[1], HDMI_CTRL_OFF)
             /\ IsrStepHasNoEffect
     /\ (ipc = IsrAtReturn /\ iret = "IRQ_NONE" /\ ipc' # ipc)
          => /\ ipc' = 0
             /\ IsrStepHasNoEffect]_vars

\* C1 witness: hdmi_isr is returning IRQ_NONE while a caller is asleep on
\* the wait queue.
C1_Witness ==
  /\ ipc = IsrAtReturn
  /\ iret = "IRQ_NONE"
  /\ \E w \in waitq : wpc[w] = "sleep" /\ tstate[w] = "INTERRUPTIBLE"

\* C2: in every serviced invocation of hdmi_isr the interrupt status
\* register is read first, the wake-up comes next and the acknowledge write
\* comes last: no write without an earlier wake-up, no wake-up without an
\* earlier read of the status register, and a completed invocation has done
\* all three.
C2_IsrStepsInOrder ==
  /\ \A i \in 1..Len(ilog) :
       /\ ilog[i][1] = "wr" =>
            \E j \in 1..(i - 1) : ilog[j][1] = "wake"
       /\ ilog[i][1] = "wake" =>
            /\ \E k \in 1..(i - 1) : IsRead(ilog[k], HDMI_ISR_OFF)
            /\ \A k \in 1..(i - 1) : ilog[k][1] # "wr"
  /\ iret = "IRQ_HANDLED" =>
       /\ Len(StatusReads(ilog)) = 1
       /\ Len(OfKind(ilog, "wake")) = 1
       /\ Len(OfKind(ilog, "wr")) = 1

\* C2 witness: a serviced invocation is at its return statement.
C2_Witness ==
  /\ ipc = IsrAtReturn
  /\ iret = "IRQ_HANDLED"
  /\ Len(OfKind(ilog, "wr")) = 1

\* C3: a serviced invocation of hdmi_isr performs exactly one register
\* write; it goes to the interrupt status register and carries exactly the
\* value read from that register in the same invocation.
C3_IsrAcksExactlyWhatItRead ==
  LET wr == OfKind(ilog, "wr")
      rd == StatusReads(ilog)
  IN /\ Len(wr) <= 1
     /\ \A i \in 1..Len(wr) :
          /\ wr[i][2] = HDMI_ISR_OFF
          /\ Len(rd) = 1
          /\ wr[i][3] = rd[1][3]
     /\ iret = "IRQ_HANDLED" => Len(wr) = 1
     /\ iret = "IRQ_NONE" => Len(wr) = 0

\* C3 witness: a serviced invocation that read a status value with more
\* than the per-frame bit set has written it back.
C3_Witness ==
  /\ iret = "IRQ_HANDLED"
  /\ \E i \in 1..Len(ilog) :
       /\ ilog[i][1] = "wr"
       /\ ilog[i][3] # HDMI_VBLANK_IRQ

\* C4: when hdmi_isr finds the pending bit set and reads zero from the
\* interrupt status register it hits BUG(): the read of zero is the last
\* thing the invocation does, so no caller is woken and the status register
\* is not written.
C4_IsrZeroStatusIsFatal ==
  /\ \A i \in 1..Len(ilog) :
       (IsRead(ilog[i], HDMI_ISR_OFF) /\ ilog[i][3] = 0)
         => /\ fatal
            /\ i = Len(ilog)
            /\ iret = "none"
  /\ fatal =>
       /\ OfKind(ilog, "wake") = <<>>
       /\ OfKind(ilog, "wr") = <<>>
       /\ Len(StatusReads(ilog)) = 1
       /\ StatusReads(ilog)[1][3] = 0

\* C4 witness: BUG() was hit while a caller is asleep on the wait queue.
C4_Witness ==
  /\ fatal
  /\ \E w \in waitq : wpc[w] = "sleep" /\ tstate[w] = "INTERRUPTIBLE"

\* A status value that is neither zero nor the per-frame cause.
Unexpected(v) == v # 0 /\ v # HDMI_VBLANK_IRQ

\* The log of a serviced invocation, warnings left out, when the status
\* register read v: control read, status read, wake-up, acknowledge of v.
ServicedAs(log, v) ==
  LET l == SelectSeq(log, LAMBDA e : e[1] # "warn") IN
    /\ Len(l) = 4
    /\ IsRead(l[1], HDMI_CTRL_OFF)
    /\ l[2] = Event("rd", HDMI_ISR_OFF, v)
    /\ l[3][1] = "wake"
    /\ l[4] = Event("wr", HDMI_ISR_OFF, v)

\* C5 as stated: whenever hdmi_isr reads a non-zero status value other than
\* HDMI_VBLANK_IRQ it flags a warning, and it services the interrupt.
C5_UnexpectedCauseAlwaysWarns ==
  \A i \in 1..Len(ilog) :
    (IsRead(ilog[i], HDMI_ISR_OFF) /\ Unexpected(ilog[i][3]))
      => /\ OfKind(ilog, "warn") # <<>>
         /\ iret = "IRQ_HANDLED" => ServicedAs(ilog, ilog[i][3])

\* C5 amended: when hdmi_isr reads a non-zero status value other than
\* HDMI_VBLANK_IRQ it flags a warning only if no earlier invocation has
\* flagged one (WARN_ON_ONCE), and in every case it services the interrupt
\* exactly as for the expected cause: it wakes every sleeper on the queue,
\* writes back the value read and returns IRQ_HANDLED.
C5_UnexpectedCauseWarnsOnceAndIsServiced ==
  /\ [](\A i \in 1..Len(ilog) :
          (IsRead(ilog[i], HDMI_ISR_OFF) /\ Unexpected(ilog[i][3]))
            => /\ warned
               /\ ~fatal
               /\ ipc = IsrAtReturn =>
                    (iret = "IRQ_HANDLED" /\ ServicedAs(ilog, ilog[i][3])))
  /\ [][/\ (Len(StatusReads(ilog)) = 0 /\ Len(StatusReads(ilog')) = 1
             /\ Unexpected(regs[HDMI_ISR_OFF]))
            => (OfKind(ilog', "warn") # <<>> <=> ~warned)
        /\ (Len(OfKind(ilog, "wake")) = 0 /\ Len(OfKind(ilog', "wake")) = 1
             /\ Unexpected(isrv))
            => \A w \in waitq :
                 tstate[w] = "INTERRUPTIBLE" => tstate'[w] = "RUNNING"]_vars

\* C5 witness: an invocation that read an unexpected cause is returning
\* IRQ_HANDLED without having flagged a warning, because an earlier one did.
C5_Witness ==
  /\ ipc = IsrAtReturn
  /\ iret = "IRQ_HANDLED"
  /\ Unexpected(isrv)
  /\ OfKind(ilog, "warn") = <<>>
  /\ warned

(***************************************************************************)
(* Properties of the wait for vertical blanking.                           *)
(***************************************************************************)
\* The row of the coordinate word in the data register.
RowNow == (regs[HDMI_COORD_DATA_OFF] \div 1024) % 1024

\* A caller that an interrupt has woken and that has not evaluated the wait
\* condition since.
OwesEvaluation(w) == woke[w] = "isr" /\ lastcond[w] = "none"

\* C6: one serviced invocation of hdmi_isr wakes every caller asleep on
\* hdmi_vblank_waitq, not just one, and each caller it woke evaluates the
\* vertical-blank condition again before it can sleep again or return.
C6_IsrWakesAllWaiters ==
  /\ [][(Len(OfKind(ilog, "wake")) = 0 /\ Len(OfKind(ilog', "wake")) = 1)
          => \A w \in waitq :
               tstate[w] = "INTERRUPTIBLE"
                 => /\ tstate'[w] = "RUNNING"
                    /\ OwesEvaluation(w)']_vars
  /\ [](\A w \in Waiters :
          OwesEvaluation(w)
            => \/ wpc[w] \in {"prep", "poll", "spin", "data"}
               \/ wpc[w] = "sleep" /\ tstate[w] = "RUNNING")
  /\ [][\A w \in Waiters :
          (OwesEvaluation(w) /\ ~OwesEvaluation(w)')
            => (wpc[w] = "data" /\ lastcond'[w] \in {"T", "F"})]_vars

\* C6 witness: a single wake-up has just woken as many callers as there
\* are, all of them now runnable.
C6_Witness ==
  /\ NumWaiters > 1
  /\ \E i \in 1..Len(ilog) : ilog[i] = Event("wake", 0, NumWaiters)
  /\ Len(OfKind(ilog, "wr")) = 0
  /\ \A w \in Waiters :
       wpc[w] = "sleep" /\ tstate[w] = "RUNNING" /\ OwesEvaluation(w)

\* C7: a call made while the scan position is in vertical blanking returns
\* 0 from the check made before the wait loop: the caller is never put on
\* the wait queue, never sleeps, uses none of its timeout and needs no
\* wake-up.
C7_AlreadyInVblankReturnsAtOnce ==
  [][\A w \in Waiters :
       (wpc[w] = "data0" /\ wpc'[w] # "data0" /\ RowNow < 45)
         => /\ wpc'[w] = "done"
            /\ wret'[w] = 0
            /\ wres'[w] = TimeoutJiffies
            /\ ~queued'[w]
            /\ w \notin waitq'
            /\ tstate'[w] = "RUNNING"
            /\ woke'[w] = "none"]_vars

\* C7 witness: a call has returned 0 without ever having been on the wait
\* queue, in the last row of vertical blanking, while hdmi_isr is not
\* running and the device has no interrupt pending.
C7_Witness ==
  \E w \in Waiters :
    /\ wpc[w] = "done"
    /\ wret[w] = 0
    /\ ~queued[w]
    /\ woke[w] = "none"
    /\ RowNow = 44
    /\ ipc = 0
    /\ BitAnd1(regs[HDMI_CTRL_OFF], CTRL_IRQ_PENDING) = 0

\* C8, what the wait loop guarantees (the statement of C8 itself is
\* C8_InterruptBeforeTimeoutGivesSuccess below, under SpecTimed):
\* a call made while not in vertical blanking returns 0 exactly when an
\* evaluation of the condition inside the wait loop finds the scan position
\* in vertical blanking: that evaluation ends the call with 0 at once, and
\* an evaluation that finds it outside vertical blanking never ends the
\* call with 0.
C8_SuccessExactlyWhenVblankSeen ==
  [][\A w \in Waiters :
       (wpc[w] = "data" /\ wpc'[w] # "data")
         => /\ RowNow < 45
                => (wpc'[w] = "done" /\ wret'[w] = 0
                      /\ w \notin waitq' /\ tstate'[w] = "RUNNING")
            /\ RowNow >= 45
                => ~(wpc'[w] = "done" /\ wret'[w] = 0)]_vars

\* C8 witness: a call that found the scan position outside vertical
\* blanking and went to sleep was woken by hdmi_isr and has returned 0 with
\* time left.
C8_Witness ==
  \E w \in Waiters :
    /\ wpc[w] = "done"
    /\ wret[w] = 0
    /\ queued[w]
    /\ woke[w] = "isr"
    /\ wres[w] > 1

\* C9 as stated, its termination part: with no interrupt ever delivered,
\* every call returns, whatever the device does.
C9_NoInterruptCallAlwaysReturns ==
  \A w \in Waiters :
    (wpc[w] \notin {"idle", "done"}) ~> (wpc[w] = "done")

\* C10 as stated: every completed call returns 0, -EINTR or -ETIMEDOUT; a
\* call whose wait found a signal pending (prepare_to_wait_event returned
\* -ERESTARTSYS) returns -EINTR, never -ETIMEDOUT or 0; a call that returns
\* -EINTR had time left.
C10_InterruptionAlwaysReportedAsEintr ==
  \A w \in Waiters :
    wpc[w] = "done" =>
      /\ wret[w] \in {0, -EINTR, -ETIMEDOUT}
      /\ wint[w] = -ERESTARTSYS => wret[w] = -EINTR
      /\ wret[w] = -EINTR => left[w] > 0

\* C10 amended: every completed call returns 0, -EINTR or -ETIMEDOUT.  It
\* returns -EINTR exactly when the wait was ended by a signal
\* (res = -ERESTARTSYS), which happens only with a signal pending, the
\* condition false and time left; it returns -ETIMEDOUT exactly when the
\* wait ended with no time left and the condition false, also with a signal
\* pending; it returns 0 exactly when the condition was found true, also
\* with a signal pending.
C10_ThreeDistinctOutcomes ==
  \A w \in Waiters :
    wpc[w] = "done" =>
      /\ wret[w] \in {0, -EINTR, -ETIMEDOUT}
      /\ wret[w] = -EINTR <=> wres[w] = -ERESTARTSYS
      /\ wret[w] = -EINTR =>
           (sigpend[w] /\ lastcond[w] = "F" /\ left[w] > 0)
      /\ wret[w] = -ETIMEDOUT <=> wres[w] = 0
      /\ wret[w] = -ETIMEDOUT => (left[w] = 0 /\ lastcond[w] = "F")
      /\ wret[w] = 0 <=> wres[w] > 0
      /\ wret[w] = 0 => lastcond[w] = "T"

\* C10 witness: a call that was sent a signal after its time had run out
\* has returned -ETIMEDOUT, not -EINTR.
C10_Witness ==
  \E w \in Waiters :
    /\ wpc[w] = "done"
    /\ sigpend[w]
    /\ wint[w] = -ERESTARTSYS
    /\ lastcond[w] = "F"
    /\ wret[w] = -ETIMEDOUT

(***************************************************************************)
(* Correct operation, timed.  The clock advances in jiffies.  The device   *)
(* scans one frame every FrameJiffies jiffies, starting each frame with    *)
(* vertical blanking, and raises its per-frame interrupt at the start of   *)
(* every frame.  hdmi_isr services every interrupt before the clock        *)
(* advances again.  Nothing is assumed of when the calling task gets to    *)
(* run: it is an ordinary preemptible task.                                *)
(***************************************************************************)
\* The rows the scan covers in one jiffy.
RowsPerJiffy == FRAME_ROWS \div FrameJiffies

\* The coordinate word the device presents in jiffy p of a frame: the row
\* the scan is at when that jiffy starts.
PhaseWord(p) == PackCoord(0, p * RowsPerJiffy, 0)

\* The jiffy of the frame the device is in.
PhaseNow == DecodeCoord(regs[HDMI_COORD_DATA_OFF]).row \div RowsPerJiffy

\* A caller asleep in schedule_timeout.
Asleep(w) == wpc[w] = "sleep" /\ tstate[w] = "INTERRUPTIBLE"

\* One jiffy passes.  The scan moves on, and the timers of the callers
\* asleep in schedule_timeout run down as in Tick.  At the start of a frame
\* the device latches the per-frame cause and asserts its interrupt.
Advance ==
  /\ ~fatal
  /\ ipc = 0
  /\ BitAnd1(regs[HDMI_CTRL_OFF], CTRL_IRQ_PENDING) = 0
  /\ LET p == (PhaseNow + 1) % FrameJiffies
         expired == {w \in Waiters : Asleep(w) /\ left[w] = 1}
     IN
       /\ regs' = [regs EXCEPT
                    ![HDMI_COORD_DATA_OFF] = PhaseWord(p),
                    ![HDMI_COORD_CTRL_OFF] = 1,
                    ![HDMI_ISR_OFF] =
                       IF p = 0 THEN HDMI_VBLANK_IRQ ELSE @,
                    ![HDMI_CTRL_OFF] =
                       IF p = 0 THEN BitOr1(@, CTRL_IRQ_PENDING) ELSE @]
       /\ left' = [w \in Waiters |->
                     IF Asleep(w) /\ left[w] > 0 THEN left[w] - 1 ELSE left[w]]
       /\ tstate' = [w \in Waiters |->
                       IF w \in expired THEN "RUNNING" ELSE tstate[w]]
       /\ woke' = [w \in Waiters |->
                     IF w \in expired THEN "timer" ELSE woke[w]]
       /\ lastcond' = [w \in Waiters |->
                         IF w \in expired THEN "none" ELSE lastcond[w]]
  /\ UNCHANGED <<fatal, isrVars, wpc, wint, sigpend, waitq, wres, wret,
                 queued>>
  /\ UNCHANGED lifeVars
  /\ UNCHANGED auxVars

\* The device presents the scan position again after a read has cleared
\* the valid bit: the position is valid within a few cycles.
HwRefresh ==
  /\ regs[HDMI_COORD_CTRL_OFF] = 0
  /\ HwScan(regs[HDMI_COORD_DATA_OFF])

\* The device drops its interrupt once hdmi_isr has acknowledged it.
HwAck ==
  /\ ipc = IsrAtReturn
  /\ iret = "IRQ_HANDLED"
  /\ HwLower

NextTimed ==
  \/ Advance
  \/ HwRefresh
  \/ HwAck
  \/ Isr
  \/ WaiterStep(Caller)
  \/ Signal(Caller)

SpecTimed == Init /\ [][NextTimed]_vars

\* C8 as stated: a call made outside vertical blanking to which a per-frame
\* interrupt is delivered before its timeout returns success once the
\* predicate has become true.  In correct operation the interrupt is raised
\* as vertical blanking begins, so the evaluation a caller makes after
\* hdmi_isr has woken it, with time left and no signal pending, finds
\* vertical blanking and ends the call with 0.
C8_InterruptBeforeTimeoutGivesSuccess ==
  [][\A w \in Waiters :
       (/\ OwesEvaluation(w)
        /\ queued[w]
        /\ left[w] > 0
        /\ ~sigpend[w]
        /\ wpc[w] = "data"
        /\ wpc'[w] # "data")
         => (wpc'[w] = "done" /\ wret'[w] = 0)]_vars

\* C11 as stated: in correct operation no call returns -ETIMEDOUT.
C11_NoTimeoutInCorrectOperation ==
  \A w \in Waiters : wpc[w] = "done" => wret[w] # -ETIMEDOUT

\* A caller that something has woken from schedule_timeout and that has
\* not evaluated the wait condition since.
WokenUnevaluated(w) == woke[w] # "none" /\ lastcond[w] = "none"

\* C12: a call returns 0 only in a step that decodes the coordinate word
\* and finds row < 45; a caller woken from its sleep, by whatever woke it,
\* goes back to the top of the wait loop and has not returned before it has
\* read the coordinate again, so a wake-up with the scan position outside
\* vertical blanking never yields 0.
C12_SuccessOnlyFromDecodeInVblank ==
  /\ [][\A w \in Waiters :
          /\ (wpc[w] # "done" /\ wpc'[w] = "done" /\ wret'[w] = 0)
               => /\ wpc[w] \in {"data0", "data"}
                  /\ DecodeCoord(regs[HDMI_COORD_DATA_OFF]).row < VBLANK_ROWS
                  /\ lastcond'[w] = "T"
          /\ (wpc[w] = "sleep" /\ wpc'[w] # "sleep")
               => /\ wpc'[w] = "prep"
                  /\ woke[w] # "none"
                  /\ tstate[w] = "RUNNING"
          /\ (WokenUnevaluated(w) /\ ~WokenUnevaluated(w)')
               => wpc[w] = "data"]_vars
  /\ [](\A w \in Waiters :
          /\ WokenUnevaluated(w)
               => wpc[w] \in {"sleep", "prep", "poll", "spin", "data"}
          /\ (wpc[w] = "done" /\ wret[w] = 0) => lastcond[w] = "T")

\* C12 witness: a caller that hdmi_isr woke has found the scan position
\* outside vertical blanking and is asleep again.
C12_Witness ==
  \E w \in Waiters :
    /\ Asleep(w)
    /\ woke[w] = "isr"
    /\ lastcond[w] = "F"
    /\ left[w] > 0

\* C13: inside the wait loop the caller is put on hdmi_vblank_waitq, in
\* interruptible state, before it reads the coordinate, so every evaluation
\* that can end in sleeping is made on the queue; a wake-up by hdmi_isr
\* reaches every caller between that registration and the end of its
\* sleep; and a caller is asleep only if no wake-up has come since it last
\* found the condition false.
C13_NoLostWakeup ==
  /\ [](\A w \in Waiters :
          /\ (wpc[w] \in {"poll", "spin", "data"} /\ wint[w] = 0)
               => /\ queued[w]
                  /\ \/ w \in waitq /\ tstate[w] = "INTERRUPTIBLE"
                     \/ tstate[w] = "RUNNING" /\ WokenUnevaluated(w)
          /\ Asleep(w) => (w \in waitq /\ lastcond[w] = "F"))
  /\ [][\A w \in Waiters :
          /\ (wpc[w] # "sleep" /\ wpc'[w] = "sleep")
               => (wpc[w] = "data" /\ lastcond'[w] = "F" /\ queued[w])
          /\ (Len(OfKind(ilog, "wake")) = 0 /\ Len(OfKind(ilog', "wake")) = 1
                /\ wpc[w] \in {"poll", "spin", "data", "sleep"}
                /\ wint[w] = 0 /\ tstate[w] = "INTERRUPTIBLE")
               => (tstate'[w] = "RUNNING" /\ WokenUnevaluated(w)')]_vars

\* C13 witness: hdmi_isr has woken a caller that was on the queue and had
\* not gone to sleep yet; the caller then found the condition false and sits
\* in schedule_timeout runnable, about to go round the loop again.
C13_Witness ==
  \E w \in Waiters :
    /\ wpc[w] = "sleep"
    /\ tstate[w] = "RUNNING"
    /\ woke[w] = "isr"
    /\ lastcond[w] = "F"

(***************************************************************************)
(* Properties of device setup and teardown.                                *)
(***************************************************************************)
\* The states of the attach sequence, in order.
LifeOrder ==
  <<"UNATTACHED", "REGISTERS_MAPPED", "BUFFER_ALLOCATED",
    "PALETTE_ALLOCATED", "INTERRUPT_ARMED", "PUBLISHED", "RUNNING">>

\* The state of the binding: each state of the attach sequence is named
\* after the last step of hdmi_probe that has succeeded (registers mapped,
\* buffer allocated, palette allocated, interrupt requested, framebuffer
\* registered, device started); an aborted probe is back at UNATTACHED, and
\* DETACHED is a device that hdmi_remove has stopped.
LifeState ==
  IF lpc \in {"err", "failed", "unbound"} THEN "UNATTACHED"
  ELSE IF lpc \in {"remove", "removed", "detached"} /\ ~Started(regs)
    THEN "DETACHED"
  ELSE IF Started(regs) THEN "RUNNING"
  ELSE IF registered THEN "PUBLISHED"
  ELSE IF "irq" \in held THEN "INTERRUPT_ARMED"
  ELSE IF "palette" \in held THEN "PALETTE_ALLOCATED"
  ELSE IF "buffer" \in held THEN "BUFFER_ALLOCATED"
  ELSE IF "mmio" \in held THEN "REGISTERS_MAPPED"
  ELSE "UNATTACHED"

\* The position of a state in LifeOrder, 0 for DETACHED.
LifeRank(st) ==
  IF \E i \in 1..Len(LifeOrder) : LifeOrder[i] = st
    THEN CHOOSE i \in 1..Len(LifeOrder) : LifeOrder[i] = st
    ELSE 0

\* The writes to register off in a log.
WritesTo(log, off) ==
  SelectSeq(log, LAMBDA e : e[1] = "wr" /\ e[2] = off)

\* Event i of the log is a write to register off.
IsWriteAt(log, i, off) == log[i][1] = "wr" /\ log[i][2] = off

\* C14: every step of the model either keeps the state of the binding, or
\* moves it to the next state of the attach sequence, or aborts an attach
\* that is not yet published back to UNATTACHED, or detaches a RUNNING
\* device, or starts a new attach on a detached one.  So hdmi_probe goes
\* through the seven states in order without skipping, repeating or
\* reordering, DETACHED is entered only from RUNNING, and a bound device is
\* RUNNING.
C14_AttachIsLinear ==
  /\ [][\/ LifeState' = LifeState
        \/ /\ LifeRank(LifeState) \in 1..(Len(LifeOrder) - 1)
           /\ LifeRank(LifeState') = LifeRank(LifeState) + 1
           /\ lpc = "probe"
        \/ /\ LifeState' = "UNATTACHED"
           /\ LifeRank(LifeState) \in 2..(Len(LifeOrder) - 2)
           /\ lpc = "probe" /\ lpc' = "err"
        \/ /\ LifeState = "RUNNING"
           /\ LifeState' = "DETACHED"
           /\ lpc = "remove"
        \/ /\ LifeState = "DETACHED"
           /\ LifeState' = "UNATTACHED"
           /\ lpc = "detached" /\ lpc' = "probe"]_vars
  /\ [](lpc = "bound" => LifeState = "RUNNING")

\* C14 witness: a device that was attached and then detached.
C14_Witness ==
  /\ lpc = "detached"
  /\ LifeState = "DETACHED"
  /\ nattach = 1

\* C15: in one call of hdmi_probe the buffer-base register is written at
\* most once, and exactly once by the time the call returns 0; the value is
\* the bus address the buffer allocation of this call handed out; and no
\* write to GIE, IER or the control register comes before it.
C15_BufferAddressWrittenOnceBeforeArming ==
  lpc = "probe" =>
    /\ Len(WritesTo(plog, HDMI_BUF_OFF)) <= 1
    /\ ProbeOrder[lidx] = "return" => Len(WritesTo(plog, HDMI_BUF_OFF)) = 1
    /\ \A i \in 1..Len(plog) :
         /\ IsWriteAt(plog, i, HDMI_BUF_OFF) =>
              /\ \E j \in 1..(i - 1) : plog[j] = <<"get", "buffer", plog[i][3]>>
              /\ plog[i][3] = bufaddr
              /\ plog[i][3] # 0
              /\ \A j \in 1..(i - 1) : plog[j][1] # "wr"
         /\ (\/ IsWriteAt(plog, i, HDMI_GIE_OFF)
             \/ IsWriteAt(plog, i, HDMI_IER_OFF)
             \/ IsWriteAt(plog, i, HDMI_CTRL_OFF)) =>
              \E j \in 1..(i - 1) : IsWriteAt(plog, j, HDMI_BUF_OFF)

\* C15 witness: hdmi_probe is at its return statement, having written the
\* address of a buffer, then GIE, IER and the start value.
C15_Witness ==
  /\ lpc = "probe"
  /\ ProbeOrder[lidx] = "return"
  /\ Len(WritesTo(plog, HDMI_BUF_OFF)) = 1
  /\ Len(WritesTo(plog, HDMI_GIE_OFF)) = 1
  /\ Len(WritesTo(plog, HDMI_IER_OFF)) = 1
  /\ Len(WritesTo(plog, HDMI_CTRL_OFF)) = 1
  /\ regs[HDMI_BUF_OFF] = bufaddr

\* The steps of hdmi_probe that acquire something, in program order.
AcquireSteps ==
  SelectSeq(ProbeOrder, LAMBDA st : st \in Helpers \cup {"register"})

\* C16: when a step of hdmi_probe fails, everything before it in the call
\* was a successful acquisition, in program order, and no register was
\* written; `res` is the code that step failed with; the call returns that
\* code; and when the failed attach is over nothing is allocated, the
\* framebuffer is not registered and the device is not started.
C16_FailedStepRollsBack ==
  /\ [](lpc \in {"err", "failed", "unbound"} /\ pres # 0 =>
          LET fails == OfKind(plog, "fail")
              gets == OfKind(plog, "get")
          IN /\ Len(fails) = 1
             /\ pres = fails[1][3]
             /\ pres \in StepErrors(fails[1][2])
             /\ OfKind(plog, "wr") = <<>>
             /\ Len(gets) < Len(AcquireSteps)
             /\ \A i \in 1..Len(gets) : gets[i][2] = AcquireSteps[i]
             /\ fails[1][2] = AcquireSteps[Len(gets) + 1]
             /\ ~registered
             /\ ~Started(regs)
             /\ lpc = "unbound" => (held = {} /\ bufaddr = 0 /\ ~drvdata))
  /\ [][lpc = "failed" /\ lpc' # "failed" =>
          /\ lpc' = "unbound"
          /\ pres' = pres
          /\ held' = {}]_vars

\* C16 witness: the last step, the registration of the framebuffer, failed
\* after all five resources had been acquired, and the attach is over.
C16_Witness ==
  /\ lpc = "unbound"
  /\ pres = -ENXIO
  /\ Len(OfKind(plog, "get")) = 5
  /\ OfKind(plog, "fail") = << <<"fail", "register", -ENXIO>> >>
  /\ held = {}

\* C17 as stated: whenever consumers can reach the device (the framebuffer
\* is registered) the buffer address is programmed, both interrupt enables
\* are set and the device is started.
C17_ConsumersSeeOnlyRunningDevice ==
  registered =>
    /\ bufaddr # 0
    /\ regs[HDMI_BUF_OFF] = bufaddr
    /\ regs[HDMI_GIE_OFF] = 1
    /\ regs[HDMI_IER_OFF] = HDMI_VBLANK_IRQ
    /\ Started(regs)

\* The log of a complete hdmi_remove: the kind of each event and what it
\* is applied to.
RemoveLog ==
  << <<"wr", HDMI_CTRL_OFF>>, <<"wr", HDMI_GIE_OFF>>,
     <<"wr", HDMI_IER_OFF>>, <<"rd", HDMI_COORD_CTRL_OFF>>,
     <<"free", "register">>, <<"free", "fbinfo">> >>

\* C18: what hdmi_remove has done so far is always a prefix of: write 0 to
\* the control register, write 0 to GIE, write 0 to IER, read the coordinate
\* control register, unregister the framebuffer, release the fb_info.  As
\* long as fewer than the three writes are done every resource is still
\* held and the framebuffer is still registered; when hdmi_remove returns
\* all six steps are done.
C18_RemoveStopsBeforeReleasing ==
  lpc \in {"remove", "removed"} =>
    /\ Len(plog) <= Len(RemoveLog)
    /\ \A i \in 1..Len(plog) :
         plog[i][1] = RemoveLog[i][1] /\ plog[i][2] = RemoveLog[i][2]
    /\ \A i \in 1..Len(plog) : plog[i][1] = "wr" => plog[i][3] = 0
    /\ Len(plog) < 3 => (held = Resources /\ registered /\ bufaddr # 0)
    /\ Len(plog) >= 3 =>
         /\ regs[HDMI_CTRL_OFF] = 0
         /\ regs[HDMI_GIE_OFF] = 0
         /\ regs[HDMI_IER_OFF] = 0
    /\ registered <=> Len(plog) < 5
    /\ "fbinfo" \in held <=> Len(plog) < 6
    /\ Managed \subseteq held
    /\ lpc = "removed" => Len(plog) = Len(RemoveLog)

\* C18 witness: hdmi_remove is about to return, the fb_info released.
C18_Witness ==
  /\ lpc = "removed"
  /\ Len(plog) = Len(RemoveLog)
  /\ "fbinfo" \notin held
  /\ ~registered

\* C19: once hdmi_remove is over the control register, GIE and IER are 0,
\* nothing is allocated, the framebuffer is unregistered and the driver
\* data is NULL; and whenever hdmi_probe writes the start value, the
\* buffer-base register holds the address that the buffer allocation of
\* this same call handed out, written by this same call, so the address a
\* previous attach left in the register is overwritten before the device
\* can scan it.
C19_DetachStopsAndReattachReprograms ==
  /\ [](lpc = "detached" =>
          /\ regs[HDMI_CTRL_OFF] = 0
          /\ regs[HDMI_GIE_OFF] = 0
          /\ regs[HDMI_IER_OFF] = 0
          /\ held = {}
          /\ bufaddr = 0
          /\ ~registered
          /\ ~drvdata)
  /\ [][(~Started(regs) /\ Started(regs')) =>
          /\ lpc = "probe"
          /\ "buffer" \in held
          /\ bufaddr # 0
          /\ regs[HDMI_BUF_OFF] = bufaddr
          /\ \E i \in 1..Len(plog) : plog[i] = <<"get", "buffer", bufaddr>>
          /\ WritesTo(plog, HDMI_BUF_OFF) = << <<"wr", HDMI_BUF_OFF, bufaddr>> >>
          /\ regs'[HDMI_BUF_OFF] = bufaddr]_vars

\* C19 witness: the device is bound for the second time, started on the
\* buffer of the second attach.
C19_Witness ==
  /\ lpc = "bound"
  /\ nattach = 2
  /\ Started(regs)
  /\ regs[HDMI_BUF_OFF] = bufaddr
  /\ "buffer" \in held

\* C20: whenever the control register holds the start value, inside
\* hdmi_probe, while bound or inside hdmi_remove, the fb_info exists with
\* all the fields hdmi_assert_init checks, every resource is held, and the
\* buffer-base register holds the bus address of the buffer that is
\* allocated now; the device is never started while no driver is bound or
\* while a probe is being aborted.
C20_RunningImpliesOwnedAndProgrammed ==
  Started(regs) =>
    /\ lpc \in {"probe", "bound", "remove"}
    /\ hdmi_assert_init(held, bufaddr)
    /\ held = Resources
    /\ registered
    /\ regs[HDMI_BUF_OFF] = bufaddr

\* C20 witness: hdmi_remove has been entered on the running device of a
\* second attach and has not yet stopped it.
C20_Witness ==
  /\ Started(regs)
  /\ lpc = "remove"
  /\ plog = <<>>
  /\ nattach = 2

(***************************************************************************)
(* C21.  Whenever hdmi_isr is executing, with a register access still to   *)
(* make, the device handle given to it as its cookie is allocated and      *)
(* fully initialised.                                                      *)
(***************************************************************************)
C21_IsrCookieAlwaysValid ==
  ipc \in 1..Len(IsrOrder) => hdmi_assert_init(held, bufaddr)

(***************************************************************************)
(* C22.  A caller that is inside hdmi_ioctl, blocked or running, has the   *)
(* device handle it is about to read still allocated: hdmi_remove has not  *)
(* released it.                                                            *)
(***************************************************************************)
C22_CallersNeverOutliveHandle ==
  \A w \in Waiters :
    wpc[w] \notin {"idle", "done"} => "fbinfo" \in held

\* The offsets of the eight words of the register block.
WordOffsets == {0, 4, 8, 12, 16, 20, 24, 28}

(***************************************************************************)
(* C23.  hdmi_ioread32 and hdmi_iowrite32 access the device only when the  *)
(* offset is word-aligned and within [0, 0x20): for any other offset they  *)
(* enter the fatal state and no register has changed, and for such an      *)
(* offset they do not enter it.                                            *)
(***************************************************************************)
C23_OnlyValidOffsetsReachDevice ==
  [][acc' # acc =>
       IF acc'.off \in WordOffsets
         THEN ~fatal'
         ELSE fatal' /\ blk' = blk]_vars

C23_Witness ==
  /\ fatal
  /\ acc.op = "wr"
  /\ acc.off = 30
  /\ blk[HDMI_COORD_CTRL_OFF] = 2147483647

(***************************************************************************)
(* C24.  On the simulated register block, a write to a valid offset        *)
(* changes that register to the value written and no other register, and   *)
(* a read of that offset made next returns the value written.              *)
(***************************************************************************)
C24_ReadAfterWriteReturnsValue ==
  [][/\ (acc'.op = "wr" /\ acc' # acc /\ acc'.off \in WordOffsets) =>
          /\ blk'[acc'.off] = acc'.val
          /\ \A o \in BusOffsets \ {acc'.off} : blk'[o] = blk[o]
     /\ (acc.op = "wr" /\ acc.off \in WordOffsets /\ ~fatal /\
         acc'.op = "rd" /\ acc'.off = acc.off) =>
          acc'.ret = acc.val]_vars

C24_Witness ==
  /\ acc.op = "rd"
  /\ acc.off = HDMI_COORD_CTRL_OFF
  /\ acc.ret = 2147483647
  /\ blk[HDMI_BUF_OFF] = 2147483647
  /\ blk[HDMI_CTRL_OFF] = 0

\* The u32 with the three fields of a coordinate at bits 31:20, 19:10 and
\* 9:0.
PackWord(c) ==
  <<c.fid * 16 + c.row \div 64, (c.row % 64) * 1024 + c.col>>

(***************************************************************************)
(* C26.  For every coordinate word the decoder yields bits 31:20 as the    *)
(* frame id, bits 19:10 as the row and bits 9:0 as the column; the frame   *)
(* id is below 4096, row and column are below 1024, and packing the three  *)
(* fields back gives the word.                                             *)
(***************************************************************************)
C26_DecodeIsTheThreeBitFields ==
  dec.done =>
    /\ dec.fid = word[1] \div 16
    /\ dec.row = (word[1] % 16) * 64 + word[2] \div 1024
    /\ dec.col = word[2] % 1024
    /\ dec.fid \in 0..4095
    /\ dec.row \in 0..1023
    /\ dec.col \in 0..1023
    /\ PackWord(dec) = word

C26_Witness ==
  /\ dec.done
  /\ word = <<65535, 65535>>
  /\ dec.fid = 4095
  /\ dec.row = 1023
  /\ dec.col = 1023

(***************************************************************************)
(* C27.  A coordinate is classified as in vertical blank exactly when its  *)
(* row is below 45: row 44 is, row 45 is not, and no row from 45 to 479    *)
(* is.                                                                     *)
(***************************************************************************)
C27_VblankIsRowBelow45 ==
  dec.done =>
    /\ dec.vblank <=> dec.row < 45
    /\ dec.row = 44 => dec.vblank
    /\ dec.row \in 45..479 => ~dec.vblank

C27_Witness ==
  /\ dec.done
  /\ dec.row = 45
  /\ ~dec.vblank
  /\ dec.fid = 2048

(***************************************************************************)
(* C28.  A coordinate is classified as in vertical sync exactly when its   *)
(* row is 10 or 11, and every coordinate in vertical sync is also in       *)
(* vertical blank.                                                         *)
(***************************************************************************)
C28_VsyncIsRows10And11 ==
  dec.done =>
    /\ dec.vsync <=> dec.row \in {10, 11}
    /\ dec.vsync => dec.vblank

C28_Witness ==
  /\ dec.done
  /\ dec.row = 11
  /\ dec.vsync
  /\ dec.vblank

\* Register reads of the coordinate data register in a log.
DataReads(log) ==
  {i \in 1..Len(log) : log[i][1] = "rd" /\ log[i][2] = HDMI_COORD_DATA_OFF}

(***************************************************************************)
(* C25.  Within one decode the coordinate data register is read only       *)
(* right after a read of the coordinate control register that returned bit *)
(* 0 set; as long as the decoder is polling or spinning it has not read    *)
(* the data register and nothing has been returned.                        *)
(***************************************************************************)
C25_DataReadOnlyAfterValidSeen ==
  /\ \A i \in DataReads(qlog) :
       /\ i > 1
       /\ qlog[i - 1][1] = "rd"
       /\ qlog[i - 1][2] = HDMI_COORD_CTRL_OFF
       /\ qlog[i - 1][3] % 2 = 1
  /\ qpc \in {"poll", "spin"} => DataReads(qlog) = {} /\ ~qout.copied
  /\ qout.copied => DataReads(qlog) # {}

C25_Witness ==
  /\ qpc = "done"
  /\ Len(qlog) = 3
  /\ qlog[1] = Event("rd", HDMI_COORD_CTRL_OFF, 0)
  /\ qlog[2] = Event("rd", HDMI_COORD_CTRL_OFF, 1)
  /\ qlog[3][2] = HDMI_COORD_DATA_OFF

(***************************************************************************)
(* C29.  ioctl(FBIOGET_VBLANK) returns 0 or -EFAULT, and -EFAULT exactly   *)
(* when the destination pointer is invalid, whatever the scan position;    *)
(* on success what it copied out is the frame id, row and column of the    *)
(* one data word it read, with the blanking and sync flags of that same    *)
(* word: vertical blank for rows below 45, horizontal blank for columns    *)
(* below 160, vertical sync for rows 10 and 11.                            *)
(***************************************************************************)
C29_QueryReturnsOneDecode ==
  qpc = "done" =>
    /\ qret \in {0, 0 - EFAULT}
    /\ qret = 0 - EFAULT <=> qarg = "bad"
    /\ qret # 0 => ~qout.copied
    /\ qret = 0 =>
         LET d == qlog[Len(qlog)][3] IN
           /\ DataReads(qlog) = {Len(qlog)}
           /\ qout.copied
           /\ qout.count = (d \div 1048576) % 4096
           /\ qout.vcount = (d \div 1024) % 1024
           /\ qout.hcount = d % 1024
           /\ HaveFlags \subseteq qout.flags
           /\ "VBLANKING" \in qout.flags <=> qout.vcount < 45
           /\ "HBLANKING" \in qout.flags <=> qout.hcount < 160
           /\ "VSYNCING" \in qout.flags <=> qout.vcount \in {10, 11}

C29_Witness ==
  /\ qpc = "done"
  /\ qret = 0
  /\ qout.count = 1
  /\ qout.vcount = 11
  /\ qout.hcount = 160
  /\ qout.flags = HaveFlags \cup {"VBLANKING", "VSYNCING"}

(***************************************************************************)
(* C30.  Every ioctl(FBIOGET_VBLANK) that has been entered returns,        *)
(* whatever the device does, as long as the caller keeps being scheduled.  *)
(***************************************************************************)
C30_QueryAlwaysCompletes == (qpc = "poll") ~> (qpc = "done")

(***************************************************************************)
(* C31.  An invocation of hdmi_isr does a bounded amount of work whatever  *)
(* the number of callers on the wait queue and the scan position: at most  *)
(* two register reads, one wake-up of the queue and one register write,    *)
(* all of them on the control and interrupt status registers, never on     *)
(* the coordinate registers; it is then at its return statement.           *)
(***************************************************************************)
C31_IsrDoesBoundedWork ==
  /\ ipc \in 0..IsrAtReturn
  /\ Len(OfKind(ilog, "rd")) <= 2
  /\ Len(OfKind(ilog, "wake")) <= 1
  /\ Len(OfKind(ilog, "wr")) <= 1
  /\ \A i \in 1..Len(ilog) :
       ilog[i][1] \in {"rd", "wr"} =>
         ilog[i][2] \in {HDMI_CTRL_OFF, HDMI_ISR_OFF}
  /\ Len(OfKind(ilog, "wr")) = 1 => ipc = IsrAtReturn

C31_Witness ==
  /\ ipc = IsrAtReturn
  /\ iret = "IRQ_HANDLED"
  /\ Len(OfKind(ilog, "rd")) = 2
  /\ Len(OfKind(ilog, "wr")) = 1
  /\ \E i \in 1..Len(ilog) : ilog[i] = Event("wake", 0, NumWaiters)
  /\ regs[HDMI_COORD_CTRL_OFF] = 1

\* The larger of two numbers.
Max(a, b) == IF a < b THEN b ELSE a

\* A proposal that is the one mode of the hardware once an under-sized
\* virtual resolution has been rounded up.
Acceptable(p) ==
  /\ p.xres = 640 /\ p.yres = 480
  /\ Max(p.xres_virtual, p.xres) = 640
  /\ Max(p.yres_virtual, p.yres) = 480
  /\ p.bits_per_pixel = 32
  /\ p.grayscale = 0
  /\ p.xoffset = 0 /\ p.yoffset = 0
  /\ p.vmode.mode = "NONINTERLACED"

(***************************************************************************)
(* C32.  hdmi_check_var returns 0 exactly for the proposals that, with an  *)
(* under-sized virtual resolution rounded up, are 640x480 physical and     *)
(* virtual, 32 bits per pixel, not grayscale, unpanned and                 *)
(* non-interlaced; it returns -EINVAL for every other one, and what it     *)
(* leaves in the struct then is still not such a proposal.                 *)
(***************************************************************************)
C32_CheckVarAcceptsExactlyTheFixedMode ==
  Len(cvres) >= 1 =>
    LET ret == cvres[Len(cvres)] IN
      /\ ret \in {0, 0 - EINVAL}
      /\ ret = 0 <=> Acceptable(var0)
      /\ ret # 0 => ~Acceptable(var)

C32_Witness ==
  /\ cvres = <<0>>
  /\ var0.xres_virtual = 320
  /\ var0.yres_virtual = 240
  /\ var.xres_virtual = 640
  /\ var.yres_virtual = 480
  /\ var0.pixclock = 25000

\* The fields of a struct fb_var_screeninfo that the acceptance path
\* assigns.
AssignedFields ==
  {"red", "green", "blue", "transp", "nonstd", "pixclock", "left_margin",
   "right_margin", "upper_margin", "lower_margin", "hsync_len", "vsync_len",
   "sync"}

(***************************************************************************)
(* C40.  A rejecting hdmi_check_var changes nothing in the proposal but    *)
(* xres_virtual and yres_virtual, each raised to xres or yres when it was  *)
(* smaller.  An accepting one gives the colour layout and timing fields    *)
(* the values of the fixed mode, sets the interlacing bits of vmode and    *)
(* keeps its other bits, and keeps every other field; applied again to     *)
(* what it left, it accepts and changes nothing.                           *)
(***************************************************************************)
C40_CheckVarTouchesOnlyWhatItMust ==
  Len(cvres) >= 1 =>
    LET ret == cvres[Len(cvres)]
        rounded == [var0 EXCEPT
                      !.xres_virtual = Max(var0.xres_virtual, var0.xres),
                      !.yres_virtual = Max(var0.yres_virtual, var0.yres)]
    IN
      /\ ret # 0 => var = rounded
      /\ ret = 0 =>
           /\ \A f \in AssignedFields : var[f] = hdmi_var_init[f]
           /\ var.vmode.mode = "NONINTERLACED"
           /\ var.vmode.rest = var0.vmode.rest
           /\ \A f \in (DOMAIN var) \ (AssignedFields \cup {"vmode"}) :
                var[f] = rounded[f]
      /\ (Len(cvres) = 2 /\ cvres[1] = 0) => (ret = 0 /\ var = var0)

C40_Witness ==
  /\ cvres = <<0, 0>>
  /\ var = var0
  /\ var.vmode.rest = {"YWRAP"}
  /\ var.activate = 1
  /\ var.rotate = 1
  /\ var.pixclock = 39721
  /\ spres = 0

\* A step of the consumer: of ioctl(FBIO_WAITFORVSYNC), of
\* ioctl(FBIOGET_VBLANK), of hdmi_check_var, hdmi_set_par or hdmi_mmap.
ConsumerStepTaken ==
  \/ wpc' # wpc
  \/ qpc' # qpc
  \/ cvres' # cvres
  \/ spres' # spres
  \/ mapped' # mapped

\* The step appends a write of register off to log.
WriteLogged(log, logAfter, off, val) ==
  /\ Len(logAfter) = Len(log) + 1
  /\ logAfter[Len(logAfter)] = Event("wr", off, val)

(***************************************************************************)
(* C33.  A step of the frame position query, of wait_for_vblank, of        *)
(* geometry negotiation or of mapping leaves every register as it was,     *)
(* but for the valid bit that the read of the coordinate control register  *)
(* clears.  The interrupt enables and the buffer-base register change only *)
(* in a write step of hdmi_probe or hdmi_remove, the buffer-base register  *)
(* only in hdmi_probe, and the device is started and stopped only by such  *)
(* a step; the only write of hdmi_isr is the one to the interrupt status   *)
(* register.                                                               *)
(***************************************************************************)
C33_RegistersWrittenOnlyByLifecycleAndIsr ==
  [][/\ ConsumerStepTaken =>
          /\ \A o \in Offsets \ {HDMI_COORD_CTRL_OFF} : regs'[o] = regs[o]
          /\ regs'[HDMI_COORD_CTRL_OFF]
               \in {regs[HDMI_COORD_CTRL_OFF],
                    BitClear1(regs[HDMI_COORD_CTRL_OFF], 1)}
          /\ plog' = plog
          /\ ilog' = ilog
     /\ \A o \in {HDMI_GIE_OFF, HDMI_IER_OFF, HDMI_BUF_OFF} :
          regs'[o] # regs[o] =>
            /\ lpc \in {"probe", "remove"}
            /\ WriteLogged(plog, plog', o, regs'[o])
     /\ regs'[HDMI_BUF_OFF] # regs[HDMI_BUF_OFF] => lpc = "probe"
     /\ Started(regs') # Started(regs) =>
          /\ lpc \in {"probe", "remove"}
          /\ WriteLogged(plog, plog', HDMI_CTRL_OFF, regs'[HDMI_CTRL_OFF])
     /\ Len(OfKind(ilog', "wr")) > Len(OfKind(ilog, "wr")) =>
          /\ WriteLogged(ilog, ilog', HDMI_ISR_OFF, regs'[HDMI_ISR_OFF])
          /\ \A o \in Offsets \ {HDMI_ISR_OFF} : regs'[o] = regs[o]]_vars

C33_Witness ==
  /\ ipc = IsrAtReturn
  /\ Len(OfKind(ilog, "wr")) = 1
  /\ qpc = "done"
  /\ qret = 0
  /\ lpc = "remove"
  /\ Len(OfKind(plog, "wr")) = 3
  /\ regs[HDMI_BUF_OFF] = bufaddr
  /\ bufaddr # 0

\* How many times the current call of hdmi_probe or hdmi_remove has
\* released the handle.
HandleReleases ==
  Len(SelectSeq(plog, LAMBDA e : e[1] = "free" /\ e[2] = "fbinfo"))

\* Somebody is executing code that reads the handle: hdmi_isr past its
\* entry, or a consumer inside hdmi_ioctl.
HandleInUse ==
  \/ ipc \in 1..Len(IsrOrder)
  \/ \E w \in Waiters : wpc[w] \notin {"idle", "done"}
  \/ qpc \notin {"idle", "done"}

(***************************************************************************)
(* C34.  The device handle is released exactly once on every path through  *)
(* hdmi_probe and hdmi_remove: never twice within a call, never still      *)
(* allocated once a failed hdmi_probe or hdmi_remove has returned; at      *)
(* detach it is released only with the device stopped and its interrupts   *)
(* disabled; once released it is not registered, and nobody is executing   *)
(* code that uses it.                                                      *)
(***************************************************************************)
C34_HandleReleasedOnceNeverUsedAfter ==
  /\ HandleReleases <= 1
  /\ lpc \in {"failed", "unbound", "removed", "detached"} =>
       "fbinfo" \notin held
  /\ (lpc = "remove" /\ "fbinfo" \notin held) =>
       /\ ~Started(regs)
       /\ regs[HDMI_GIE_OFF] = 0
       /\ regs[HDMI_IER_OFF] = 0
  /\ "fbinfo" \notin held => ~registered
  /\ "fbinfo" \notin held => ~HandleInUse

\* The frame id, row and column that one data word carries.
Snapshot(d) == <<(d \div 1048576) % 4096, (d \div 1024) % 1024, d % 1024>>

(***************************************************************************)
(* C35.  Every coordinate the decoder returns is a snapshot of one data    *)
(* word: with the device advancing the scan position and every caller     *)
(* decoding concurrently, the frame id, row and column a frame-position    *)
(* query copies out are those of the single word its one read of the data  *)
(* register returned, a word the device presented, and the condition a     *)
(* waiter evaluates is the vertical-blank test of the word its own read    *)
(* returned.                                                               *)
(***************************************************************************)
C35_DecodeIsOneWordSnapshot ==
  [][LET d == regs[HDMI_COORD_DATA_OFF] IN
       /\ (qpc = "data" /\ qpc' = "done" /\ qout'.copied) =>
            /\ d \in CoordWords
            /\ <<qout'.count, qout'.vcount, qout'.hcount>> = Snapshot(d)
            /\ DataReads(qlog') = {Len(qlog')}
            /\ qlog'[Len(qlog')][3] = d
       /\ \A w \in Waiters :
            (wpc[w] \in {"data0", "data"} /\ wpc'[w] # wpc[w]) =>
              /\ d \in CoordWords
              /\ lastcond'[w] = IF Snapshot(d)[2] < VBLANK_ROWS
                                  THEN "T" ELSE "F"]_vars

\* A query has returned the position of one word, the device has since
\* presented the other one, and two waiters have decoded different words.
C35_Witness ==
  /\ qpc = "done"
  /\ qout.copied
  /\ <<qout.count, qout.vcount, qout.hcount>> = <<1, 45, 0>>
  /\ regs[HDMI_COORD_DATA_OFF] = PackCoord(0, 44, 799)
  /\ \E w1, w2 \in Waiters : lastcond[w1] = "T" /\ lastcond[w2] = "F"

(***************************************************************************)
(* C36.  No coordinate decode made by a consumer of the newly attached     *)
(* device returns a coordinate latched before this attach started the      *)
(* device: the data word a frame-position query reads is never the one a   *)
(* previous run left in the coordinate data register.                      *)
(***************************************************************************)
C36_NoDecodeOfLeftoverCoordinate ==
  \A i \in DataReads(qlog) : qlog[i][3] \notin LeftoverWords

(***************************************************************************)
(* C37.  Outcome precedence in ioctl(FBIO_WAITFORVSYNC).  The call returns *)
(* only from an evaluation of the wait condition.  An evaluation that      *)
(* finds the scan position in vertical blanking ends the call with 0, also *)
(* when no time is left or an interruption is pending.  The call returns   *)
(* -ETIMEDOUT only from an evaluation that is false with no time left, and *)
(* -EINTR only from an evaluation that is false with time left and the     *)
(* interruption noted by prepare_to_wait_event.                            *)
(***************************************************************************)
C37_ConditionBeatsTimeoutAndSignal ==
  [][\A w \in Waiters :
       /\ (wpc[w] # "done" /\ wpc'[w] = "done") =>
            wpc[w] \in {"data0", "data"}
       /\ (wpc[w] \in {"data0", "data"} /\ wpc'[w] # wpc[w]) =>
            /\ RowNow < VBLANK_ROWS => (wpc'[w] = "done" /\ wret'[w] = 0)
            /\ (wpc'[w] = "done" /\ wret'[w] = 0 - ETIMEDOUT) =>
                 (RowNow >= VBLANK_ROWS /\ left[w] = 0)
            /\ (wpc'[w] = "done" /\ wret'[w] = 0 - EINTR) =>
                 /\ RowNow >= VBLANK_ROWS
                 /\ left[w] > 0
                 /\ wint[w] = 0 - ERESTARTSYS]_vars

\* The time ran out, a signal arrived before the caller looked again, and
\* the evaluation that followed found vertical blanking: the call returned
\* 0, with __ret raised from 0 to 1.
C37_Witness ==
  \E w \in Waiters :
    /\ wpc[w] = "done"
    /\ woke[w] = "timer"
    /\ sigpend[w]
    /\ wint[w] = 0 - ERESTARTSYS
    /\ lastcond[w] = "T"
    /\ wres[w] = 1
    /\ wret[w] = 0

\* hdmi_probe is at a statement that evaluates hdmi_assert_init itself:
\* hdmi_probe_register_fbinfo (line 625) or one of its register accesses
\* (lines 75 and 82).
ProbeAsserts ==
  /\ lpc = "probe"
  /\ lidx \in 1..Len(ProbeOrder)
  /\ ProbeOrder[lidx] \in {"register", "rd_coord"} \cup WriteSteps

(***************************************************************************)
(* C38.  During attach and in steady state hdmi_assert_init holds wherever *)
(* it can be evaluated: as soon as the interrupt handler is installed or   *)
(* running, as soon as the framebuffer is registered, and at every         *)
(* statement of hdmi_probe that evaluates it, the handle has its register  *)
(* mapping, its buffer with a bus address that passes the test of line 56  *)
(* (it is not 0), and its palette.                                         *)
(***************************************************************************)
C38_HandleInitializedWhereverAsserted ==
  (/\ lpc \in {"probe", "bound"}
   /\ ("irq" \in held \/ ipc # 0 \/ registered \/ ProbeAsserts))
    => hdmi_assert_init(held, bufaddr)

\* The offsets of the register accesses noted in a log.
LoggedOffsets(log) ==
  {log[i][2] : i \in {j \in 1..Len(log) : log[j][1] \in {"rd", "wr"}}}

\* The offsets of the register accesses the driver has noted in its logs.
OffsetsUsed == LoggedOffsets(plog) \cup LoggedOffsets(ilog)
                 \cup LoggedOffsets(qlog)

\* The offsets of the register accesses the driver is about to make: the
\* next write of hdmi_probe or hdmi_remove, and the read a decoder is at.
OffsetsNext ==
  (IF lpc = "probe" /\ lidx \in 1..Len(ProbeOrder)
        /\ ProbeOrder[lidx] \in WriteSteps
     THEN {ProbeWrites(ProbeOrder[lidx], bufaddr)[1]} ELSE {})
  \cup (IF lpc = "remove" /\ lidx \in 1..Len(RemoveOrder)
             /\ RemoveOrder[lidx] \in WriteSteps
          THEN {RemoveWrites(RemoveOrder[lidx])[1]} ELSE {})
  \cup (IF \E w \in Waiters : wpc[w] \in {"poll0", "poll"}
          THEN {HDMI_COORD_CTRL_OFF} ELSE {})
  \cup (IF \E w \in Waiters : wpc[w] \in {"data0", "data"}
          THEN {HDMI_COORD_DATA_OFF} ELSE {})

(***************************************************************************)
(* C39.  Every register access the driver issues, in hdmi_probe,           *)
(* hdmi_remove, hdmi_isr and hdmi_coordinate_read, is at one of the        *)
(* offsets 0x00, 0x04, 0x08, 0x0c, 0x10, 0x18, 0x1c: word-aligned, below   *)
(* the block length 0x20, and passing hdmi_assert_inbounds.                *)
(***************************************************************************)
C39_DriverAccessesOnlyItsRegisters ==
  \A off \in OffsetsUsed \cup OffsetsNext :
    /\ off \in {0, 4, 8, 12, 16, 24, 28}
    /\ off % 4 = 0
    /\ off < 32
    /\ hdmi_assert_inbounds(off)

\* hdmi_probe has made all its accesses and not yet returned, hdmi_isr has
\* read the interrupt status, and a frame-position query has read the
\* coordinate: all seven registers have been accessed.
C39_Witness ==
  /\ lpc = "probe"
  /\ OffsetsUsed = {0, 4, 8, 12, 16, 24, 28}

====
